---- MODULE Spec2Model ----
\* Model of the voxel mesh builder (mesh_builder_wasm/src/lib.rs): the palette
\* (geometry catalog), the batch accumulators, and the two chunk builders
\* build_chunk (naive merge with geometry-driven culling) and
\* build_chunk_greedy (greedy meshing of "solid" voxels).
\*
\* f32 values are modelled exactly as integer multiples of 1/FUnit.
\* Option<T> is modelled as a sequence of length 0 (None) or 1 (Some).
\* HashMap iteration order is modelled by a hash seed h: a map's keys are
\* visited in one of HashOrders permutations of a fixed base order.
EXTENDS Integers, Sequences, FiniteSets, TLC

VARIABLES
    palette,        \* MeshBuilder.palette: Seq(Option(PaletteEntryData))
    accumulators,   \* MeshBuilder.accumulators: category -> GeometryAccumulator
    batch_mode,     \* MeshBuilder.batch_mode
    call,           \* the last operation called, with its arguments
    result,         \* what the last operation returned (or that it panicked)
    voxel_map,      \* the padded grid built by the last build call (<<>> if none)
    lastBatchOp,    \* history: the most recent of start/finish/clear_batch
    batchLog,       \* history: the builds made since the last start_batch
    input           \* the arguments drawn for the calls of a behaviour

vars == <<palette, accumulators, batch_mode, call, result, voxel_map,
          lastBatchOp, batchLog, input>>

------------------------------------------------------------------------
\* Bounds of the model

MaxBlocks == 2      \* voxels per chunk in SpecBuild
MaxCoord == 1       \* voxel x coordinates are 0..MaxCoord in SpecBuild
MaxEntries == 2     \* objects per update_palette call in SpecPalette
HashOrders == 2     \* iteration orders tried per HashMap
MaxSlab == 3        \* slab side lengths are 1..MaxSlab in SpecSlab
MaxPlane == 3       \* the face plane of SpecGreedy is MaxPlane x MaxPlane cells
MaxVertexCount == 1000000   \* largest vertex count given to the index-array step in SpecWidth

------------------------------------------------------------------------
\* Program constants

POSITION_SCALE == 1024
NORMAL_SCALE == 127
I32Max == 2147483647
U16Max == 65535
PosX == 0
NegX == 1
PosY == 2
NegY == 3
PosZ == 4
NegZ == 5

FUnit == 4 * POSITION_SCALE            \* resolution of modelled f32 values
I32Min == (-I32Max) - 1

None == <<>>
Some(x) == <<x>>

------------------------------------------------------------------------
\* Numeric helpers

Abs(a) == IF a < 0 THEN -a ELSE a
Min2(a, b) == IF a < b THEN a ELSE b
Max2(a, b) == IF a > b THEN a ELSE b

\* division truncating toward zero (Rust float -> int casts truncate)
TruncDiv(a, b) == IF a >= 0 THEN a \div b ELSE -((-a) \div b)

\* mutant: the lowest bit of the 16-bit value is dropped
QuantizePositionCoarse(r) == 2 * TruncDiv(r * POSITION_SCALE, 2 * FUnit)

\* (value * POSITION_SCALE) as i16, value = r / FUnit; the cast saturates
QuantizePosition(r) ==
    LET t == TruncDiv(r * POSITION_SCALE, FUnit)
    IN  IF t > 32767 THEN 32767 ELSE IF t < -32768 THEN -32768 ELSE t

\* (value * NORMAL_SCALE) as i8, value = n / FUnit; the cast saturates
QuantizeNormal(n) ==
    LET t == TruncDiv(n * NORMAL_SCALE, FUnit)
    IN  IF t > 127 THEN 127 ELSE IF t < -128 THEN -128 ELSE t

\* f32::round (half away from zero) followed by as i32, value = n / FUnit
RoundF(n) ==
    IF n >= 0 THEN (2 * n + FUnit) \div (2 * FUnit)
    ELSE -((2 * (-n) + FUnit) \div (2 * FUnit))

\* (flags & (1 << bit)) != 0
BitSet(flags, bit) == (flags \div (2 ^ bit)) % 2 = 1

\* x as u16
AsU16(x) == x % (U16Max + 1)

------------------------------------------------------------------------
\* HashMap iteration order

RECURSIVE SetToSeq(_)
SetToSeq(S) ==
    IF S = {} THEN <<>>
    ELSE LET x == CHOOSE y \in S : TRUE IN <<x>> \o SetToSeq(S \ {x})

RECURSIVE Reverse(_)
Reverse(s) == IF s = <<>> THEN <<>> ELSE Reverse(Tail(s)) \o <<Head(s)>>

\* s rotated left by k places
Rotate(s, k) ==
    SubSeq(s, (k % Len(s)) + 1, Len(s)) \o SubSeq(s, 1, k % Len(s))

\* the keys of a HashMap in the order its iterator yields them under seed h
IterOrder(h, keys) ==
    LET base == SetToSeq(keys)
    IN  IF base = <<>> THEN <<>>
        ELSE IF h % 2 = 0 THEN Rotate(base, h \div 2)
        ELSE Rotate(Reverse(base), h \div 2)

------------------------------------------------------------------------
\* FaceDir

\* mutant: the directions array lists +Z twice and never -Z
directionsNoNegZ == <<PosX, NegX, PosY, NegY, PosZ, PosZ>>

directions == <<PosX, NegX, PosY, NegY, PosZ, NegZ>>

normal(dir) ==
    CASE dir = PosX -> <<FUnit, 0, 0>>
      [] dir = NegX -> <<-FUnit, 0, 0>>
      [] dir = PosY -> <<0, FUnit, 0>>
      [] dir = NegY -> <<0, -FUnit, 0>>
      [] dir = PosZ -> <<0, 0, FUnit>>
      [] dir = NegZ -> <<0, 0, -FUnit>>

delta(dir) ==
    CASE dir = PosX -> <<1, 0, 0>>
      [] dir = NegX -> <<-1, 0, 0>>
      [] dir = PosY -> <<0, 1, 0>>
      [] dir = NegY -> <<0, -1, 0>>
      [] dir = PosZ -> <<0, 0, 1>>
      [] dir = NegZ -> <<0, 0, -1>>

\* the face index a direction has in occlusionFlags (lines 51-60)
occlusion_face_index(dir) ==
    CASE dir = PosX -> 1
      [] dir = NegX -> 0
      [] dir = PosY -> 3
      [] dir = NegY -> 2
      [] dir = PosZ -> 5
      [] dir = NegZ -> 4

\* the index of the neighbour's face that points back (lines 63-72)
opposite_occlusion_index(dir) ==
    CASE dir = PosX -> 0
      [] dir = NegX -> 1
      [] dir = PosY -> 2
      [] dir = NegY -> 3
      [] dir = PosZ -> 4
      [] dir = NegZ -> 5

------------------------------------------------------------------------
\* Palette

\* self.palette.get(idx as usize): a negative i32 casts to an index past the end
PaletteGet(pal, idx) ==
    IF idx >= 0 /\ idx < Len(pal) THEN pal[idx + 1] ELSE None

\* unwrap_or(0.0) as usize / as u32: absent gives 0, a negative number saturates to 0
NumberOr0(opt) == IF opt = None THEN 0 ELSE Max2(opt[1], 0)

\* one parsed geometry object of the "geometries" array (lines 321-337)
ParseGeometry(g) ==
    [positions |-> g.positions, normals |-> g.normals, uvs |-> g.uvs,
     indices |-> g.indices, material_index |-> NumberOr0(g.materialIndex)]

\* while self.palette.len() <= index { self.palette.push(None) }
RECURSIVE PadPalette(_, _)
PadPalette(pal, index) ==
    IF Len(pal) <= index THEN PadPalette(Append(pal, None), index) ELSE pal

\* the body of update_palette's loop for one item of palette_data
IngestItem(pal, item) ==
    IF ~item.isObject THEN pal
    ELSE LET index == NumberOr0(item.index)
             occlusion_flags == NumberOr0(item.occlusionFlags)
             category == IF item.category = None THEN "solid" ELSE item.category[1]
             geometries == [j \in 1..Len(item.geometries) |->
                               ParseGeometry(item.geometries[j])]
             padded == PadPalette(pal, index)
         IN  [padded EXCEPT ![index + 1] =
                 Some([occlusion_flags |-> occlusion_flags,
                       geometries |-> geometries,
                       category |-> category])]

RECURSIVE IngestFrom(_, _, _)
IngestFrom(pal, palette_data, i) ==
    IF i > Len(palette_data) THEN pal
    ELSE IngestFrom(IngestItem(pal, palette_data[i]), palette_data, i + 1)

\* mutant: the palette is not cleared before the new entries are ingested
UpdatedPaletteNoClear(pal, palette_data) == IngestFrom(pal, palette_data, 1)

\* the palette after update_palette(palette_data) on palette pal: cleared,
\* then refilled
UpdatedPalette(pal, palette_data) == IngestFrom(<<>>, palette_data, 1)

------------------------------------------------------------------------
\* Voxel grid

block_count(blocks) == Len(blocks) \div 4

\* the i-th block (0-based) of the flat [x, y, z, paletteIndex] list
BlockX(blocks, i) == blocks[4 * i + 1]
BlockY(blocks, i) == blocks[4 * i + 2]
BlockZ(blocks, i) == blocks[4 * i + 3]
BlockType(blocks, i) == blocks[4 * i + 4]

RECURSIVE BoundsFrom(_, _, _)
BoundsFrom(blocks, i, b) ==
    IF i >= block_count(blocks) THEN b
    ELSE BoundsFrom(blocks, i + 1,
            <<Min2(b[1], BlockX(blocks, i)), Min2(b[2], BlockY(blocks, i)),
              Min2(b[3], BlockZ(blocks, i)), Max2(b[4], BlockX(blocks, i)),
              Max2(b[5], BlockY(blocks, i)), Max2(b[6], BlockZ(blocks, i))>>)

\* (min_x, min_y, min_z, max_x, max_y, max_z)
calculate_bounds(blocks) ==
    BoundsFrom(blocks, 0, <<I32Max, I32Max, I32Max, I32Min, I32Min, I32Min>>)

\* the strides and size of the padded voxel map
GridShape(blocks) ==
    LET b == calculate_bounds(blocks)
        size_x == b[4] - b[1] + 1
        size_y == b[5] - b[2] + 1
        size_z == b[6] - b[3] + 1
        pad == 1
        sy == size_x + 2 * pad
        sz == (size_x + 2 * pad) * (size_y + 2 * pad)
    IN  [min_x |-> b[1], min_y |-> b[2], min_z |-> b[3],
         max_x |-> b[4], max_y |-> b[5], max_z |-> b[6],
         pad |-> pad, stride_y |-> sy, stride_z |-> sz,
         map_size |-> sz * (size_z + 2 * pad)]

\* the get_index closure (0-based index into voxel_map)
get_index(g, x, y, z) ==
    LET lx == (x - g.min_x) + g.pad
        ly == (y - g.min_y) + g.pad
        lz == (z - g.min_z) + g.pad
    IN  lx + ly * g.stride_y + lz * g.stride_z

\* palette_idx + 1 in i32 when overflow wraps (a build without overflow checks)
CellValue(palette_idx) == IF palette_idx = I32Max THEN I32Min ELSE palette_idx + 1

\* palette_idx + 1 overflows i32 for some block: with overflow checks the
\* populate loop panics there
PopulateOverflows(blocks) ==
    \E i \in 0..(block_count(blocks) - 1) : BlockType(blocks, i) = I32Max

RECURSIVE PopulateFrom(_, _, _, _)
PopulateFrom(blocks, g, i, map) ==
    IF i >= block_count(blocks) THEN map
    ELSE PopulateFrom(blocks, g, i + 1,
            [map EXCEPT ![get_index(g, BlockX(blocks, i), BlockY(blocks, i),
                                    BlockZ(blocks, i))] =
                CellValue(BlockType(blocks, i))])

\* vec![0i32; map_size] filled by the populate loop (last write wins)
BuildVoxelMap(blocks, g) ==
    PopulateFrom(blocks, g, 0, [k \in 0..(g.map_size - 1) |-> 0])

------------------------------------------------------------------------
\* Grouping of blocks by category and palette index (category_batches)

\* block i has a palette entry (and, for build_non_solid_blocks, is not solid)
Batched(pal, blocks, i, skipSolid) ==
    LET e == PaletteGet(pal, BlockType(blocks, i))
    IN  e /= None /\ (skipSolid => e[1].category /= "solid")

BatchedBlocks(pal, blocks, skipSolid) ==
    {i \in 0..(block_count(blocks) - 1) : Batched(pal, blocks, i, skipSolid)}

RECURSIVE SortedSeq(_)
SortedSeq(S) ==
    IF S = {} THEN <<>>
    ELSE LET m == CHOOSE x \in S : \A y \in S : x <= y
         IN  <<m>> \o SortedSeq(S \ {m})

\* category -> (palette index -> block indices in input order)
CategoryBatches(pal, blocks, skipSolid) ==
    LET B == BatchedBlocks(pal, blocks, skipSolid)
        catOf(i) == PaletteGet(pal, BlockType(blocks, i))[1].category
        cats == {catOf(i) : i \in B}
    IN  [c \in cats |->
            LET Bc == {i \in B : catOf(i) = c}
                idxs == {BlockType(blocks, i) : i \in Bc}
            IN  [p \in idxs |->
                    SortedSeq({i \in Bc : BlockType(blocks, i) = p})]]

------------------------------------------------------------------------
\* Naive merge (merge_category_geometries)

RECURSIVE Flatten(_)
Flatten(ss) == IF ss = <<>> THEN <<>> ELSE Head(ss) \o Flatten(Tail(ss))

\* (v - target).abs() < EPSILON with EPSILON = 0.01, v and target in 1/FUnit
Near(v, target) == 100 * Abs(v - target) < FUnit

\* the flush test of lines 606-614 for a rounded axis normal (dx, dy, dz)
is_flush(dx, dy, dz, v0x, v0y, v0z) ==
    CASE <<dx, dy, dz>> = <<1, 0, 0>> -> Near(v0x, FUnit) \/ Near(v0x, FUnit \div 2)
      [] <<dx, dy, dz>> = <<-1, 0, 0>> -> Near(v0x, 0) \/ Near(v0x, -(FUnit \div 2))
      [] <<dx, dy, dz>> = <<0, 1, 0>> -> Near(v0y, FUnit) \/ Near(v0y, FUnit \div 2)
      [] <<dx, dy, dz>> = <<0, -1, 0>> -> Near(v0y, 0) \/ Near(v0y, -(FUnit \div 2))
      [] <<dx, dy, dz>> = <<0, 0, 1>> -> Near(v0z, FUnit) \/ Near(v0z, FUnit \div 2)
      [] <<dx, dy, dz>> = <<0, 0, -1>> -> Near(v0z, 0) \/ Near(v0z, -(FUnit \div 2))
      [] OTHER -> FALSE

\* the neighbour's face index tested by the naive path (lines 625-633)
neighbor_face_index(dx, dy, dz) ==
    CASE <<dx, dy, dz>> = <<1, 0, 0>> -> 0
      [] <<dx, dy, dz>> = <<-1, 0, 0>> -> 1
      [] <<dx, dy, dz>> = <<0, 1, 0>> -> 2
      [] <<dx, dy, dz>> = <<0, -1, 0>> -> 3
      [] <<dx, dy, dz>> = <<0, 0, 1>> -> 4
      [] <<dx, dy, dz>> = <<0, 0, -1>> -> 5
      [] OTHER -> 6

\* is_visible for the triangle whose first index is local_indices[j] (j 1-based)
TriangleVisible(pal, geom, g, vmap, px, py, pz, j) ==
    LET idx0 == geom.indices[j]
    IN  IF ~(Len(geom.normals) > idx0 * 3 + 2) THEN TRUE
        ELSE
        LET dx == RoundF(geom.normals[idx0 * 3 + 1])
            dy == RoundF(geom.normals[idx0 * 3 + 2])
            dz == RoundF(geom.normals[idx0 * 3 + 3])
        IN  IF Abs(dx) + Abs(dy) + Abs(dz) /= 1 THEN TRUE
            ELSE
            IF ~is_flush(dx, dy, dz, geom.positions[idx0 * 3 + 1],
                         geom.positions[idx0 * 3 + 2], geom.positions[idx0 * 3 + 3])
            THEN TRUE
            ELSE
            LET neighbor_val == vmap[get_index(g, px + dx, py + dy, pz + dz)]
            IN  IF ~(neighbor_val > 0) THEN TRUE
                ELSE
                LET neighbor_entry == PaletteGet(pal, neighbor_val - 1)
                    face == neighbor_face_index(dx, dy, dz)
                IN  IF neighbor_entry = None THEN TRUE
                    ELSE ~(face < 6 /\ BitSet(neighbor_entry[1].occlusion_flags, face))

\* valid_indices: the indices of the triangles that survive culling
RECURSIVE ValidIndicesFrom(_, _, _, _, _, _, _, _)
ValidIndicesFrom(pal, geom, g, vmap, px, py, pz, j) ==
    IF j > Len(geom.indices) THEN <<>>
    ELSE (IF TriangleVisible(pal, geom, g, vmap, px, py, pz, j)
          THEN <<geom.indices[j], geom.indices[j + 1], geom.indices[j + 2]>>
          ELSE <<>>)
         \o ValidIndicesFrom(pal, geom, g, vmap, px, py, pz, j + 3)

\* the instances vector: palette indices ascending, blocks in input order,
\* geometries in catalog order (lines 534-556)
Instances(pal, palette_map, blocks) ==
    LET sorted_palette_indices == SortedSeq(DOMAIN palette_map)
        ofBlock(entry, block_idx) ==
            [k \in 1..Len(entry.geometries) |->
                [x |-> BlockX(blocks, block_idx), y |-> BlockY(blocks, block_idx),
                 z |-> BlockZ(blocks, block_idx), geom |-> entry.geometries[k],
                 occlusion_flags |-> entry.occlusion_flags]]
        ofIndex(palette_idx) ==
            LET e == PaletteGet(pal, palette_idx)
            IN  IF e = None THEN <<>>
                ELSE Flatten([b \in 1..Len(palette_map[palette_idx]) |->
                                 ofBlock(e[1], palette_map[palette_idx][b])])
    IN  Flatten([n \in 1..Len(sorted_palette_indices) |->
                    ofIndex(sorted_palette_indices[n])])

RECURSIVE SumVerts(_)
SumVerts(instances) ==
    IF instances = <<>> THEN 0
    ELSE (Len(Head(instances).geom.positions) \div 3) + SumVerts(Tail(instances))

\* mutant: a same-material instance overwrites the group's count
UpdateGroupsOverwrite(groups, current_group, index_start, index_count, mat_index) ==
    IF current_group /= None /\ current_group[1].materialIndex = mat_index
    THEN <<groups, Some([current_group[1] EXCEPT !.count = index_count])>>
    ELSE IF current_group /= None
    THEN <<Append(groups, current_group[1]),
           Some([start |-> index_start, count |-> index_count,
                 materialIndex |-> mat_index])>>
    ELSE <<groups,
           Some([start |-> index_start, count |-> index_count,
                 materialIndex |-> mat_index])>>

\* mutant: every instance starts a group of its own
UpdateGroupsApart(groups, current_group, index_start, index_count, mat_index) ==
    IF current_group /= None
    THEN <<Append(groups, current_group[1]),
           Some([start |-> index_start, count |-> index_count,
                 materialIndex |-> mat_index])>>
    ELSE <<groups,
           Some([start |-> index_start, count |-> index_count,
                 materialIndex |-> mat_index])>>

\* the material-group update shared by both paths (lines 702-713, 955-966):
\* returns <<groups, current_group>>
UpdateGroups(groups, current_group, index_start, index_count, mat_index) ==
    IF current_group /= None /\ current_group[1].materialIndex = mat_index
    THEN <<groups, Some([current_group[1] EXCEPT !.count = @ + index_count])>>
    ELSE IF current_group /= None
    THEN <<Append(groups, current_group[1]),
           Some([start |-> index_start, count |-> index_count,
                 materialIndex |-> mat_index])>>
    ELSE <<groups,
           Some([start |-> index_start, count |-> index_count,
                 materialIndex |-> mat_index])>>

\* if let Some(group) = current_group { groups.push(group) }
CloseGroups(groups, current_group) ==
    IF current_group /= None THEN Append(groups, current_group[1]) ELSE groups

EmptyBuffers ==
    [positions |-> <<>>, normals |-> <<>>, uvs |-> <<>>, indices |-> <<>>,
     groups |-> <<>>, current_group |-> None, v_offset |-> 0]

\* mutant: an instance without surviving triangle still adds its vertices
MergeInstanceKeepsCulled(st, pal, g, vmap, origin, inst) ==
    LET geom == inst.geom
        num_local_verts == Len(geom.positions) \div 3
        valid_indices == ValidIndicesFrom(pal, geom, g, vmap, inst.x, inst.y, inst.z, 1)
        rel == <<(inst.x - origin[1]) * FUnit, (inst.y - origin[2]) * FUnit,
                 (inst.z - origin[3]) * FUnit>>
        pos == [k \in 1..(3 * num_local_verts) |->
                   QuantizePosition(rel[((k - 1) % 3) + 1] + geom.positions[k])]
        nrm == [k \in 1..(3 * num_local_verts) |-> 0]
        uv == [k \in 1..(2 * num_local_verts) |-> 0]
        idx == [k \in 1..Len(valid_indices) |-> valid_indices[k] + st.v_offset]
        gr == UpdateGroups(st.groups, st.current_group, Len(st.indices),
                           Len(valid_indices), geom.material_index)
    IN  [positions |-> st.positions \o pos,
         normals |-> st.normals \o nrm,
         uvs |-> st.uvs \o uv,
         indices |-> st.indices \o idx,
         groups |-> IF valid_indices = <<>> THEN st.groups ELSE gr[1],
         current_group |-> IF valid_indices = <<>> THEN st.current_group ELSE gr[2],
         v_offset |-> st.v_offset + num_local_verts]

\* one iteration of the instance loop (lines 573-716)
MergeInstance(st, pal, g, vmap, origin, inst) ==
    LET geom == inst.geom
        num_local_verts == Len(geom.positions) \div 3
        valid_indices == ValidIndicesFrom(pal, geom, g, vmap, inst.x, inst.y, inst.z, 1)
        rel == <<(inst.x - origin[1]) * FUnit, (inst.y - origin[2]) * FUnit,
                 (inst.z - origin[3]) * FUnit>>
        defaultNormal == <<0, 127, 0>>
        pos == [k \in 1..(3 * num_local_verts) |->
                   QuantizePosition(rel[((k - 1) % 3) + 1] + geom.positions[k])]
        nrm == [k \in 1..(3 * num_local_verts) |->
                   IF Len(geom.normals) > ((k - 1) \div 3) * 3 + 2
                   THEN QuantizeNormal(geom.normals[k])
                   ELSE defaultNormal[((k - 1) % 3) + 1]]
        uv == [k \in 1..(2 * num_local_verts) |->
                   IF Len(geom.uvs) > ((k - 1) \div 2) * 2 + 1
                   THEN geom.uvs[k] ELSE 0]
        index_start == Len(st.indices)
        idx == [k \in 1..Len(valid_indices) |-> valid_indices[k] + st.v_offset]
        gr == UpdateGroups(st.groups, st.current_group, index_start,
                           Len(valid_indices), geom.material_index)
    IN  IF valid_indices = <<>> THEN st
        ELSE [positions |-> st.positions \o pos,
              normals |-> st.normals \o nrm,
              uvs |-> st.uvs \o uv,
              indices |-> st.indices \o idx,
              groups |-> gr[1], current_group |-> gr[2],
              v_offset |-> st.v_offset + num_local_verts]

RECURSIVE MergeInstances(_, _, _, _, _, _)
MergeInstances(st, pal, g, vmap, origin, instances) ==
    IF instances = <<>> THEN st
    ELSE MergeInstances(MergeInstance(st, pal, g, vmap, origin, Head(instances)),
                        pal, g, vmap, origin, Tail(instances))

\* mutant: the wide index array is chosen one vertex too late
MergeIndexBitsLate(v_offset) == IF v_offset > U16Max + 1 THEN 32 ELSE 16

\* the index array of merge_category_geometries (lines 732-741)
MergeIndexBits(v_offset) == IF v_offset > U16Max THEN 32 ELSE 16

NarrowIndices(indices, bits) ==
    IF bits = 32 THEN indices ELSE [k \in 1..Len(indices) |-> AsU16(indices[k])]

\* Option<mesh>: None when the category holds no vertex at all
merge_category_geometries(pal, category, palette_map, blocks, g, vmap, origin) ==
    LET instances == Instances(pal, palette_map, blocks)
        st == MergeInstances(EmptyBuffers, pal, g, vmap, origin, instances)
        bits == MergeIndexBits(st.v_offset)
    IN  IF SumVerts(instances) = 0 THEN None
        ELSE Some([category |-> category,
                   positions |-> st.positions,
                   normals |-> st.normals,
                   uvs |-> st.uvs,
                   indices |-> NarrowIndices(st.indices, bits),
                   indexBits |-> bits,
                   groups |-> CloseGroups(st.groups, st.current_group)])

\* the meshes of the categories of a category_batches map, in iteration order
RECURSIVE MergeCategoriesIn(_, _, _, _, _, _, _)
MergeCategoriesIn(pal, batches, blocks, g, vmap, origin, order) ==
    IF order = <<>> THEN <<>>
    ELSE merge_category_geometries(pal, Head(order), batches[Head(order)],
                                   blocks, g, vmap, origin)
         \o MergeCategoriesIn(pal, batches, blocks, g, vmap, origin, Tail(order))

MergeCategories(pal, batches, blocks, g, vmap, origin, h) ==
    MergeCategoriesIn(pal, batches, blocks, g, vmap, origin,
                      IterOrder(h, DOMAIN batches))

create_empty_result == [kind |-> "ok", meshes |-> <<>>, origin |-> <<0, 0, 0>>]

Panicked == [kind |-> "panic"]

\* mutant: the empty-input path echoes the requested origin
BuildChunkResultEcho(pal, blocks, origin, h, oc) ==
    IF block_count(blocks) = 0
    THEN [kind |-> "ok", meshes |-> <<>>, origin |-> origin]
    ELSE IF oc /\ PopulateOverflows(blocks) THEN Panicked
    ELSE LET g == GridShape(blocks)
             vmap == BuildVoxelMap(blocks, g)
             batches == CategoryBatches(pal, blocks, FALSE)
         IN  [kind |-> "ok",
              meshes |-> MergeCategories(pal, batches, blocks, g, vmap, origin, h),
              origin |-> origin]

\* what build_chunk returns; oc says whether the build has overflow checks
BuildChunkResult(pal, blocks, origin, h, oc) ==
    IF block_count(blocks) = 0 THEN create_empty_result
    ELSE IF oc /\ PopulateOverflows(blocks) THEN Panicked
    ELSE LET g == GridShape(blocks)
             vmap == BuildVoxelMap(blocks, g)
             batches == CategoryBatches(pal, blocks, FALSE)
         IN  [kind |-> "ok",
              meshes |-> MergeCategories(pal, batches, blocks, g, vmap, origin, h),
              origin |-> origin]

\* the voxel map a build call leaves behind (<<>> when it builds none)
BuiltVoxelMap(blocks, oc) ==
    IF block_count(blocks) = 0 \/ (oc /\ PopulateOverflows(blocks)) THEN <<>>
    ELSE BuildVoxelMap(blocks, GridShape(blocks))

------------------------------------------------------------------------
\* Greedy meshing (build_chunk_greedy, greedy_merge_faces, quad_vertices)

\* block i is meshed by the greedy pass: it has an entry of category "solid"
IsSolidBlock(pal, blocks, i) ==
    LET e == PaletteGet(pal, BlockType(blocks, i))
    IN  e /= None /\ e[1].category = "solid"

\* geometries.first().map(|g| g.material_index).unwrap_or(0)
FirstMaterial(entry) ==
    IF entry.geometries = <<>> THEN 0 ELSE entry.geometries[1].material_index

\* mutant: the occlusion bit test is inverted
FaceVisibleInverted(pal, g, vmap, bx, by, bz, dir) ==
    LET d == delta(dir)
        neighbor_val == vmap[get_index(g, bx + d[1], by + d[2], bz + d[3])]
    IN  IF neighbor_val > 0
        THEN LET neighbor_entry == PaletteGet(pal, neighbor_val - 1)
             IN  IF neighbor_entry /= None
                 THEN BitSet(neighbor_entry[1].occlusion_flags,
                             opposite_occlusion_index(dir))
                 ELSE TRUE
        ELSE TRUE

\* mutant: any occupied neighbour cell hides the face
FaceVisibleWhenEmpty(pal, g, vmap, bx, by, bz, dir) ==
    LET d == delta(dir)
    IN  ~(vmap[get_index(g, bx + d[1], by + d[2], bz + d[3])] > 0)

\* the grid-driven visibility test of lines 861-878
FaceVisible(pal, g, vmap, bx, by, bz, dir) ==
    LET d == delta(dir)
        neighbor_val == vmap[get_index(g, bx + d[1], by + d[2], bz + d[3])]
    IN  IF neighbor_val > 0
        THEN LET neighbor_entry == PaletteGet(pal, neighbor_val - 1)
             IN  IF neighbor_entry /= None
                 THEN ~BitSet(neighbor_entry[1].occlusion_flags,
                              opposite_occlusion_index(dir))
                 ELSE TRUE
        ELSE TRUE

\* face_groups: (direction, material) -> faces (block positions) in push order
FaceGroups(pal, blocks, g, vmap) ==
    LET S == {i \in 0..(block_count(blocks) - 1) : IsSolidBlock(pal, blocks, i)}
        mat(i) == FirstMaterial(PaletteGet(pal, BlockType(blocks, i))[1])
        vis(i, dir) == FaceVisible(pal, g, vmap, BlockX(blocks, i),
                                   BlockY(blocks, i), BlockZ(blocks, i), dir)
        keys == {<<directions[n], mat(i)>> : n \in 1..6, i \in S}
        used == {k \in keys : \E i \in S : mat(i) = k[2] /\ vis(i, k[1])}
    IN  [k \in used |->
            LET I == SortedSeq({i \in S : mat(i) = k[2] /\ vis(i, k[1])})
            IN  [n \in 1..Len(I) |->
                    <<BlockX(blocks, I[n]), BlockY(blocks, I[n]), BlockZ(blocks, I[n])>>]]

\* (layer, u, v) of a face for a direction (lines 1036-1040)
LayerUV(dir, face) ==
    IF dir \in {PosY, NegY} THEN <<face[2], face[1], face[3]>>
    ELSE IF dir \in {PosX, NegX} THEN <<face[1], face[2], face[3]>>
    ELSE <<face[3], face[1], face[2]>>

\* (u_min, u_max, v_min, v_max) of the 2-D grid (lines 1045-1049)
PlaneBounds(dir, g) ==
    IF dir \in {PosY, NegY} THEN <<g.min_x, g.max_x, g.min_z, g.max_z>>
    ELSE IF dir \in {PosX, NegX} THEN <<g.min_y, g.max_y, g.min_z, g.max_z>>
    ELSE <<g.min_x, g.max_x, g.min_y, g.max_y>>

\* the mask of one layer: cell (ui, vi) is at index vi * u_size + ui
LayerMask(coords, u_min, v_min, u_size, v_size) ==
    [k \in 0..(u_size * v_size - 1) |->
        \E n \in 1..Len(coords) :
            LET ui == coords[n][1] - u_min
                vi == coords[n][2] - v_min
            IN  ui >= 0 /\ vi >= 0 /\ ui < u_size /\ vi < v_size
                /\ vi * u_size + ui = k]

\* mutant: a run is never extended along u
RunWidthStuck(mask, u_size, v_idx, u_idx, width) == width

RECURSIVE RunWidth(_, _, _, _, _)
RunWidth(mask, u_size, v_idx, u_idx, width) ==
    IF u_idx + width < u_size /\ mask[v_idx * u_size + u_idx + width]
    THEN RunWidth(mask, u_size, v_idx, u_idx, width + 1)
    ELSE width

\* mutant: a run is never extended along v
RunHeightStuck(mask, u_size, v_size, v_idx, u_idx, width, height) == height

RECURSIVE RunHeight(_, _, _, _, _, _, _)
RunHeight(mask, u_size, v_size, v_idx, u_idx, width, height) ==
    IF v_idx + height < v_size
       /\ \A w \in 0..(width - 1) : mask[(v_idx + height) * u_size + u_idx + w]
    THEN RunHeight(mask, u_size, v_size, v_idx, u_idx, width, height + 1)
    ELSE height

\* mutant: only the first row of the rectangle is cleared
ClearRectFirstRow(mask, u_size, v_idx, u_idx, width, height) ==
    [k \in DOMAIN mask |->
        IF /\ k \div u_size = v_idx
           /\ k % u_size >= u_idx /\ k % u_size < u_idx + width
        THEN FALSE ELSE mask[k]]

ClearRect(mask, u_size, v_idx, u_idx, width, height) ==
    [k \in DOMAIN mask |->
        IF /\ k \div u_size >= v_idx /\ k \div u_size < v_idx + height
           /\ k % u_size >= u_idx /\ k % u_size < u_idx + width
        THEN FALSE ELSE mask[k]]

\* the MergedQuad for a rectangle found at (u_world, v_world) (lines 1105-1115)
QuadAt(dir, layer, u_world, v_world, width, height) ==
    LET p == IF dir \in {PosY, NegY} THEN <<u_world, layer, v_world>>
             ELSE IF dir \in {PosX, NegX} THEN <<layer, u_world, v_world>>
             ELSE <<u_world, v_world, layer>>
    IN  [x |-> p[1], y |-> p[2], z |-> p[3], width |-> width, height |-> height]

\* the rectangle scan of one layer from cell (u_idx, v_idx) on (lines 1068-1119)
RECURSIVE ScanLayer(_, _, _, _, _, _, _, _, _)
ScanLayer(mask, u_size, v_size, v_idx, u_idx, dir, layer, u_min, v_min) ==
    IF v_idx >= v_size THEN <<>>
    ELSE IF u_idx >= u_size
    THEN ScanLayer(mask, u_size, v_size, v_idx + 1, 0, dir, layer, u_min, v_min)
    ELSE IF ~mask[v_idx * u_size + u_idx]
    THEN ScanLayer(mask, u_size, v_size, v_idx, u_idx + 1, dir, layer, u_min, v_min)
    ELSE LET width == RunWidth(mask, u_size, v_idx, u_idx, 1)
             height == RunHeight(mask, u_size, v_size, v_idx, u_idx, width, 1)
             cleared == ClearRect(mask, u_size, v_idx, u_idx, width, height)
         IN  <<QuadAt(dir, layer, u_idx + u_min, v_idx + v_min, width, height)>>
             \o ScanLayer(cleared, u_size, v_size, v_idx, u_idx + width,
                          dir, layer, u_min, v_min)

\* the quads of one (direction, material) face group; h orders the layers map
greedy_merge_faces(h, dir, faces, g) ==
    LET luv == [n \in 1..Len(faces) |-> LayerUV(dir, faces[n])]
        layerKeys == {luv[n][1] : n \in 1..Len(faces)}
        coordsOf(layer) ==
            LET I == SortedSeq({n \in 1..Len(faces) : luv[n][1] = layer})
            IN  [m \in 1..Len(I) |-> <<luv[I[m]][2], luv[I[m]][3]>>]
        pb == PlaneBounds(dir, g)
        u_size == pb[2] - pb[1] + 1
        v_size == pb[4] - pb[3] + 1
        order == IterOrder(h, layerKeys)
    IN  Flatten([n \in 1..Len(order) |->
            ScanLayer(LayerMask(coordsOf(order[n]), pb[1], pb[3], u_size, v_size),
                      u_size, v_size, 0, 0, dir, order[n], pb[1], pb[3])])

\* the 4 corners of a merged quad (lines 1126-1177)
quad_vertices(dir, quad) ==
    LET x == quad.x
        y == quad.y
        z == quad.z
        w == quad.width
        h == quad.height
    IN  CASE dir = PosY -> <<<<x, y + 1, z>>, <<x + w, y + 1, z>>,
                             <<x + w, y + 1, z + h>>, <<x, y + 1, z + h>>>>
          [] dir = NegY -> <<<<x, y, z + h>>, <<x + w, y, z + h>>,
                             <<x + w, y, z>>, <<x, y, z>>>>
          [] dir = PosX -> <<<<x + 1, y, z>>, <<x + 1, y, z + h>>,
                             <<x + 1, y + w, z + h>>, <<x + 1, y + w, z>>>>
          [] dir = NegX -> <<<<x, y, z + h>>, <<x, y, z>>,
                             <<x, y + w, z>>, <<x, y + w, z + h>>>>
          [] dir = PosZ -> <<<<x + w, y, z + 1>>, <<x, y, z + 1>>,
                             <<x, y + h, z + 1>>, <<x + w, y + h, z + 1>>>>
          [] dir = NegZ -> <<<<x, y, z>>, <<x + w, y, z>>,
                             <<x + w, y + h, z>>, <<x, y + h, z>>>>

\* one iteration of the quad loop (lines 915-967)
EmitQuad(st, dir, material_index, quad, origin) ==
    LET c == quad_vertices(dir, quad)
        n == normal(dir)
        corner(k) == c[((k - 1) \div 3) + 1]
        pos == [k \in 1..12 |->
                   QuantizePosition((corner(k)[((k - 1) % 3) + 1]
                                     - origin[((k - 1) % 3) + 1]) * FUnit)]
        nrm == [k \in 1..12 |-> QuantizeNormal(n[((k - 1) % 3) + 1])]
        uv == <<0, 0, quad.width * FUnit, 0,
                quad.width * FUnit, quad.height * FUnit, 0, quad.height * FUnit>>
        index_start == Len(st.indices)
        o == st.v_offset
        gr == UpdateGroups(st.groups, st.current_group, index_start, 6, material_index)
    IN  [positions |-> st.positions \o pos,
         normals |-> st.normals \o nrm,
         uvs |-> st.uvs \o uv,
         indices |-> st.indices \o <<o, o + 1, o + 2, o, o + 2, o + 3>>,
         groups |-> gr[1], current_group |-> gr[2],
         v_offset |-> o + 4]

RECURSIVE EmitQuads(_, _, _, _, _)
EmitQuads(st, dir, material_index, quads, origin) ==
    IF quads = <<>> THEN st
    ELSE EmitQuads(EmitQuad(st, dir, material_index, Head(quads), origin),
                   dir, material_index, Tail(quads), origin)

\* the loop over face_groups (lines 902-968), keys visited in the given order
RECURSIVE EmitFaceGroups(_, _, _, _, _, _)
EmitFaceGroups(st, order, face_groups, g, origin, h) ==
    IF order = <<>> THEN st
    ELSE LET key == Head(order)
             quads == greedy_merge_faces(h + 1, key[1], face_groups[key], g)
         IN  EmitFaceGroups(EmitQuads(st, key[1], key[2], quads, origin),
                            Tail(order), face_groups, g, origin, h)

\* the index array of create_mesh_result (lines 1252-1261)
CreateIndexBits(vertex_count) == IF vertex_count > U16Max THEN 32 ELSE 16

create_mesh_result(category, positions, normals, uvs, indices, groups, vertex_count) ==
    [category |-> category,
     positions |-> positions,
     normals |-> normals,
     uvs |-> uvs,
     indices |-> NarrowIndices(indices, CreateIndexBits(vertex_count)),
     indexBits |-> CreateIndexBits(vertex_count),
     groups |-> groups]

\* mutant: the naive pass of the greedy builder does not skip solid blocks
build_all_blocks(pal, blocks, g, vmap, origin, h) ==
    MergeCategories(pal, CategoryBatches(pal, blocks, FALSE), blocks, g, vmap, origin, h)

\* the meshes of the non-solid categories (lines 1180-1230)
build_non_solid_blocks(pal, blocks, g, vmap, origin, h) ==
    MergeCategories(pal, CategoryBatches(pal, blocks, TRUE), blocks, g, vmap, origin, h)

\* what build_chunk_greedy returns; oc says whether the build has overflow checks
BuildChunkGreedyResult(pal, blocks, origin, h, oc) ==
    IF block_count(blocks) = 0 THEN create_empty_result
    ELSE IF oc /\ PopulateOverflows(blocks) THEN Panicked
    ELSE LET g == GridShape(blocks)
             vmap == BuildVoxelMap(blocks, g)
             face_groups == FaceGroups(pal, blocks, g, vmap)
             st == EmitFaceGroups(EmptyBuffers, IterOrder(h, DOMAIN face_groups),
                                  face_groups, g, origin, h)
             groups == CloseGroups(st.groups, st.current_group)
             non_solid_result == build_non_solid_blocks(pal, blocks, g, vmap, origin, h)
             solid == IF st.positions /= <<>>
                      THEN <<create_mesh_result("solid", st.positions, st.normals,
                                                st.uvs, st.indices, groups, st.v_offset)>>
                      ELSE <<>>
         IN  [kind |-> "ok", meshes |-> solid \o non_solid_result, origin |-> origin]

------------------------------------------------------------------------
\* Batch mode (start_batch, finish_batch, clear_batch, is_batch_mode)

EmptyMap == <<>>

\* the index array of finish_batch (lines 231-240)
BatchIndexBits(vertex_count) == IF vertex_count > U16Max THEN 32 ELSE 16

\* the mesh finish_batch emits for one accumulator (lines 220-261)
BatchMesh(category, acc) ==
    IF acc.vertex_count = 0 THEN <<>>
    ELSE <<[category |-> category,
            positions |-> acc.positions,
            normals |-> acc.normals,
            uvs |-> acc.uvs,
            indices |-> NarrowIndices(acc.indices, BatchIndexBits(acc.vertex_count)),
            indexBits |-> BatchIndexBits(acc.vertex_count),
            groups |-> acc.groups,
            vertexCount |-> acc.vertex_count]>>

\* what finish_batch returns for the accumulators it finds
FinishBatchResult(accs, h) ==
    LET order == IterOrder(h, DOMAIN accs)
    IN  [kind |-> "ok",
         meshes |-> Flatten([n \in 1..Len(order) |-> BatchMesh(order[n], accs[order[n]])]),
         origin |-> <<0, 0, 0>>]

is_batch_mode == batch_mode

Void == [kind |-> "void"]

------------------------------------------------------------------------
\* The operations of MeshBuilder

new ==
    /\ palette = <<>>
    /\ accumulators = EmptyMap
    /\ batch_mode = FALSE
    /\ call = [op |-> "new"]
    /\ result = Void
    /\ voxel_map = <<>>
    /\ lastBatchOp = "none"
    /\ batchLog = [builds |-> <<>>, other |-> FALSE]

start_batch ==
    /\ batch_mode' = TRUE
    /\ accumulators' = EmptyMap
    /\ call' = [op |-> "start_batch"]
    /\ result' = Void
    /\ voxel_map' = <<>>
    /\ lastBatchOp' = "start_batch"
    /\ batchLog' = [builds |-> <<>>, other |-> FALSE]
    /\ UNCHANGED <<palette, input>>

\* mutant: finish_batch forgets to leave batch mode
finish_batch_keeps_mode ==
    \E h \in 0..(HashOrders - 1) :
        /\ batch_mode' = batch_mode
        /\ result' = FinishBatchResult(accumulators, h)
        /\ accumulators' = EmptyMap
        /\ call' = [op |-> "finish_batch"]
        /\ voxel_map' = <<>>
        /\ lastBatchOp' = "finish_batch"
        /\ UNCHANGED <<palette, batchLog, input>>

finish_batch ==
    \E h \in 0..(HashOrders - 1) :
        /\ batch_mode' = FALSE
        /\ result' = FinishBatchResult(accumulators, h)
        /\ accumulators' = EmptyMap
        /\ call' = [op |-> "finish_batch"]
        /\ voxel_map' = <<>>
        /\ lastBatchOp' = "finish_batch"
        /\ UNCHANGED <<palette, batchLog, input>>

clear_batch ==
    /\ accumulators' = EmptyMap
    /\ batch_mode' = FALSE
    /\ call' = [op |-> "clear_batch"]
    /\ result' = Void
    /\ voxel_map' = <<>>
    /\ lastBatchOp' = "clear_batch"
    /\ UNCHANGED <<palette, batchLog, input>>

\* history: the block lists of the first two build_chunk calls made while a
\* batch is open, and whether any other build or a palette update was made in it
Logged(op, blocks) ==
    IF ~batch_mode THEN batchLog
    ELSE IF op = "build_chunk" /\ Len(batchLog.builds) < 2 /\ ~batchLog.other
    THEN [batchLog EXCEPT !.builds = Append(@, blocks)]
    ELSE [batchLog EXCEPT !.other = TRUE]

update_palette(palette_data) ==
    /\ palette' = UpdatedPalette(palette, palette_data)
    /\ call' = [op |-> "update_palette", palette_data |-> palette_data]
    /\ result' = Void
    /\ voxel_map' = <<>>
    /\ batchLog' = Logged("update_palette", <<>>)
    /\ UNCHANGED <<accumulators, batch_mode, lastBatchOp, input>>

\* overflow checks only matter to a call whose populate loop overflows
OverflowModes(blocks) == IF PopulateOverflows(blocks) THEN BOOLEAN ELSE {FALSE}

\* build_chunk takes &self: it changes no field of the builder
build_chunk(blocks, origin) ==
    \E h \in 0..(HashOrders - 1), oc \in OverflowModes(blocks) :
        /\ result' = BuildChunkResult(palette, blocks, origin, h, oc)
        /\ voxel_map' = BuiltVoxelMap(blocks, oc)
        /\ call' = [op |-> "build_chunk", blocks |-> blocks, origin |-> origin]
        /\ batchLog' = Logged("build_chunk", blocks)
        /\ UNCHANGED <<palette, accumulators, batch_mode, lastBatchOp, input>>

\* build_chunk_greedy takes &self: it changes no field of the builder
build_chunk_greedy(blocks, origin) ==
    \E h \in 0..(HashOrders - 1), oc \in OverflowModes(blocks) :
        /\ result' = BuildChunkGreedyResult(palette, blocks, origin, h, oc)
        /\ voxel_map' = BuiltVoxelMap(blocks, oc)
        /\ call' = [op |-> "build_chunk_greedy", blocks |-> blocks, origin |-> origin]
        /\ batchLog' = Logged("build_chunk_greedy", blocks)
        /\ UNCHANGED <<palette, accumulators, batch_mode, lastBatchOp, input>>

\* the places that turn a mesh's u32 indices into the array handed to the host
Sites == {"merge_category_geometries", "create_mesh_result", "finish_batch"}

IndexBitsAt(site, vertex_count) ==
    IF site = "merge_category_geometries" THEN MergeIndexBits(vertex_count)
    ELSE IF site = "create_mesh_result" THEN CreateIndexBits(vertex_count)
    ELSE BatchIndexBits(vertex_count)

\* the index-array step of a result builder (lines 732-741, 1252-1261,
\* 231-240) on its own: a vertex count and the u32 indices of one mesh
index_array(site, vertex_count, indices) ==
    /\ result' = [kind |-> "indices",
                  indexBits |-> IndexBitsAt(site, vertex_count),
                  indices |-> NarrowIndices(indices, IndexBitsAt(site, vertex_count))]
    /\ call' = [op |-> "index_array", site |-> site,
                vertex_count |-> vertex_count, indices |-> indices]
    /\ voxel_map' = <<>>
    /\ UNCHANGED <<palette, accumulators, batch_mode, lastBatchOp, batchLog, input>>

\* the quantization of one position component on its own (lines 667-669,
\* 930-932): component is the local coordinate rx in units of 1/FUnit
quantize_position(component) ==
    /\ result' = [kind |-> "quantized", value |-> QuantizePosition(component)]
    /\ call' = [op |-> "quantize_position", component |-> component]
    /\ voxel_map' = <<>>
    /\ UNCHANGED <<palette, accumulators, batch_mode, lastBatchOp, batchLog, input>>

\* the flush test of one first vertex on its own (lines 600-614): the rounded
\* normal (dx, dy, dz) and the vertex position in units of 1/FUnit
flush_test(dx, dy, dz, v0x, v0y, v0z) ==
    /\ result' = [kind |-> "flush", value |-> is_flush(dx, dy, dz, v0x, v0y, v0z)]
    /\ call' = [op |-> "is_flush", d |-> <<dx, dy, dz>>, v0 |-> <<v0x, v0y, v0z>>]
    /\ voxel_map' = <<>>
    /\ UNCHANGED <<palette, accumulators, batch_mode, lastBatchOp, batchLog, input>>

\* the quantization of one normal component on its own (lines 673-675, 911-913)
quantize_normal(component) ==
    /\ result' = [kind |-> "quantized", value |-> QuantizeNormal(component)]
    /\ call' = [op |-> "quantize_normal", component |-> component]
    /\ voxel_map' = <<>>
    /\ UNCHANGED <<palette, accumulators, batch_mode, lastBatchOp, batchLog, input>>

\* greedy_merge_faces on its own (lines 1019-1123): the faces of one
\* (direction, material) group and the chunk bounds; h orders the layers map
merge_faces(dir, faces, bounds) ==
    \E h \in 0..(HashOrders - 1) :
        /\ result' = [kind |-> "quads", quads |-> greedy_merge_faces(h, dir, faces, bounds)]
        /\ call' = [op |-> "greedy_merge_faces", dir |-> dir, faces |-> faces,
                    bounds |-> bounds]
        /\ voxel_map' = <<>>
        /\ UNCHANGED <<palette, accumulators, batch_mode, lastBatchOp, batchLog, input>>

------------------------------------------------------------------------
\* Inputs: geometries, palette objects, voxel lists

F(n) == n * FUnit
Half == FUnit \div 2

QuadIndices == <<0, 1, 2, 0, 2, 3>>

\* a unit quad on the +X boundary of the block, normal +X
QuadPosXGeom(mat) ==
    [positions |-> <<F(1), 0, 0,  F(1), F(1), 0,  F(1), F(1), F(1),  F(1), 0, F(1)>>,
     normals |-> <<F(1), 0, 0,  F(1), 0, 0,  F(1), 0, 0,  F(1), 0, 0>>,
     uvs |-> <<0, 0,  F(1), 0,  F(1), F(1),  0, F(1)>>,
     indices |-> QuadIndices, materialIndex |-> mat]

\* a unit quad on the -X boundary of the block, normal -X
QuadNegXGeom(mat) ==
    [positions |-> <<0, 0, F(1),  0, 0, 0,  0, F(1), 0,  0, F(1), F(1)>>,
     normals |-> <<-F(1), 0, 0,  -F(1), 0, 0,  -F(1), 0, 0,  -F(1), 0, 0>>,
     uvs |-> <<0, 0,  F(1), 0,  F(1), F(1),  0, F(1)>>,
     indices |-> QuadIndices, materialIndex |-> mat]

\* a half-height triangle facing up (a slab top), without uvs
HalfUpGeom(mat) ==
    [positions |-> <<0, Half, 0,  0, Half, F(1),  F(1), Half, 0>>,
     normals |-> <<0, F(1), 0,  0, F(1), 0,  0, F(1), 0>>,
     uvs |-> <<>>,
     indices |-> <<0, 1, 2>>, materialIndex |-> mat]

\* a slanted triangle (normal rounds to (1,1,0)) at fractional positions,
\* without normals for its last vertex
DiagGeom(mat) ==
    [positions |-> <<602, 0, 154,  F(1), 3000, 0,  -6, Half, 4094,  Half, Half, Half>>,
     normals |-> <<2896, 2896, 0,  2896, 2896, 0,  2896, 2896, 0>>,
     uvs |-> <<0, 0,  Half, 0,  Half, Half>>,
     indices |-> <<0, 1, 2,  2, 1, 3>>, materialIndex |-> mat]

JsObject(index, occlusionFlags, category, geometries) ==
    [isObject |-> TRUE, index |-> index, occlusionFlags |-> occlusionFlags,
     category |-> category, geometries |-> geometries]

\* an item of palette_data that is no object (a number, null)
JsNonObject ==
    [isObject |-> FALSE, index |-> None, occlusionFlags |-> None,
     category |-> None, geometries |-> <<>>]

\* well-formed catalogs for the build specifications
CatalogA ==
    <<JsObject(Some(0), Some(63), Some("solid"), <<QuadPosXGeom(Some(0))>>),
      JsObject(Some(1), Some(63), Some("solid"), <<QuadNegXGeom(Some(1))>>),
      JsObject(Some(2), Some(0), Some("transparent"),
               <<DiagGeom(Some(2)), QuadPosXGeom(Some(0))>>)>>

\* index 1 is unused; type 2 occludes through its west face only
CatalogB ==
    <<JsObject(Some(0), Some(0), Some("solid"),
               <<QuadPosXGeom(Some(0)), HalfUpGeom(Some(1))>>),
      JsObject(Some(2), Some(1), Some("cutout"),
               <<QuadNegXGeom(Some(1)), HalfUpGeom(Some(1)), QuadPosXGeom(Some(0))>>)>>

\* two solid types sharing material 0, one without geometry; no index 2
CatalogC ==
    <<JsObject(Some(0), Some(63), Some("solid"), <<QuadPosXGeom(Some(0))>>),
      JsObject(Some(1), Some(63), None, <<>>)>>

Catalogs == {CatalogA, CatalogB, CatalogC}

\* voxel type indices: known ones, negative, past the end, and i32::MAX
Types == {-1, 0, 1, 2, I32Max}

Cells == {<<x, 0, 0>> : x \in 0..MaxCoord}

Voxels == {<<c[1], c[2], c[3], t>> : c \in Cells, t \in Types}

\* flat voxel lists of at most n voxels drawn from V
RECURSIVE VoxelLists(_, _)
VoxelLists(V, n) ==
    IF n = 0 THEN {<<>>}
    ELSE LET P == VoxelLists(V, n - 1)
         IN  P \cup {l \o v : l \in {q \in P : Len(q) = 4 * (n - 1)}, v \in V}

\* lists that hold fewer than 4 integers, or end in an incomplete quadruple
RaggedLists == {<<7>>, <<0, 0>>, <<0, 0, 0>>, <<0, 0, 0, 0, 1, 0, 0>>}

BuildBlocks == VoxelLists(Voxels, MaxBlocks) \cup RaggedLists

Origins == {<<0, 0, 0>>, <<1, -2, 3>>}

------------------------------------------------------------------------
\* Specifications whose calls take the arguments drawn in the initial state:
\* update_palette with input.previous or input.palette_data, the builders
\* with input.blocks and input.origin

NextInput ==
    \/ update_palette(input.previous)
    \/ update_palette(input.palette_data)
    \/ build_chunk(input.blocks, input.origin)
    \/ build_chunk_greedy(input.blocks, input.origin)

BuildInputs ==
    [previous : {<<>>}, palette_data : Catalogs, blocks : BuildBlocks, origin : Origins]

\* SpecBuild: the two builders over well-formed catalogs
InitBuild == new /\ input \in BuildInputs

SpecBuild == InitBuild /\ [][NextInput]_vars

------------------------------------------------------------------------
\* Reading a returned mesh

IsBuild == call.op \in {"build_chunk", "build_chunk_greedy"}

Returned == IsBuild /\ result.kind = "ok"

VertexCountOf(mesh) == Len(mesh.positions) \div 3

\* quads of a greedy mesh: quad k owns vertices 4(k-1) .. 4(k-1)+3
QuadCount(mesh) == VertexCountOf(mesh) \div 4

\* corner j (1..4) of quad k in voxel coordinates (positions are integral there)
QuadCorner(mesh, origin, k, j) ==
    [a \in 1..3 |->
        (mesh.positions[12 * (k - 1) + 3 * (j - 1) + a] \div POSITION_SCALE) + origin[a]]

\* the emitted normal of quad k
QuadNormal(mesh, k) ==
    <<mesh.normals[12 * (k - 1) + 1], mesh.normals[12 * (k - 1) + 2],
      mesh.normals[12 * (k - 1) + 3]>>

EncodedNormal(dir) == [a \in 1..3 |-> (normal(dir)[a] \div FUnit) * NORMAL_SCALE]

QuadLow(mesh, origin, k, a) ==
    CHOOSE m \in {QuadCorner(mesh, origin, k, j)[a] : j \in 1..4} :
        \A j \in 1..4 : m <= QuadCorner(mesh, origin, k, j)[a]

QuadHigh(mesh, origin, k, a) ==
    CHOOSE m \in {QuadCorner(mesh, origin, k, j)[a] : j \in 1..4} :
        \A j \in 1..4 : m >= QuadCorner(mesh, origin, k, j)[a]

\* quad k of the mesh lies on the face of cell c in direction dir and spans it
QuadCoversFace(mesh, origin, k, c, dir) ==
    /\ QuadNormal(mesh, k) = EncodedNormal(dir)
    /\ \A a \in 1..3 :
        IF delta(dir)[a] = 1
        THEN QuadLow(mesh, origin, k, a) = c[a] + 1 /\ QuadHigh(mesh, origin, k, a) = c[a] + 1
        ELSE IF delta(dir)[a] = -1
        THEN QuadLow(mesh, origin, k, a) = c[a] /\ QuadHigh(mesh, origin, k, a) = c[a]
        ELSE QuadLow(mesh, origin, k, a) <= c[a] /\ c[a] + 1 <= QuadHigh(mesh, origin, k, a)

SolidMeshes(meshes) == {n \in 1..Len(meshes) : meshes[n].category = "solid"}

\* the number of quads of the solid mesh that cover the face of cell c towards dir
FaceCover(meshes, origin, c, dir) ==
    Cardinality(UNION {{<<n, k>> : k \in {q \in 1..QuadCount(meshes[n]) :
                                   QuadCoversFace(meshes[n], origin, q, c, dir)}} :
                       n \in SolidMeshes(meshes)})

HasSolidEntry(pal, t) ==
    PaletteGet(pal, t) /= None /\ PaletteGet(pal, t)[1].category = "solid"

------------------------------------------------------------------------
\* C2: in every mesh returned by build_chunk or build_chunk_greedy the material
\* groups partition the index buffer: the first group starts at 0, each next
\* group starts where the previous one ends, no group is empty, and the last
\* group ends at the length of the index buffer.

GroupsPartition(mesh) ==
    LET gs == mesh.groups
    IN  /\ gs = <<>> => mesh.indices = <<>>
        /\ gs /= <<>> => gs[1].start = 0
        /\ \A k \in 1..Len(gs) : gs[k].count > 0
        /\ \A k \in 1..(Len(gs) - 1) : gs[k + 1].start = gs[k].start + gs[k].count
        /\ gs /= <<>> => gs[Len(gs)].start + gs[Len(gs)].count = Len(mesh.indices)

C2_GroupsPartitionIndices ==
    Returned => \A n \in 1..Len(result.meshes) : GroupsPartition(result.meshes[n])

\* a returned mesh has several groups, one of them extended by a later quad
C2_Witness ==
    /\ Returned
    /\ \E n \in 1..Len(result.meshes) :
        /\ Len(result.meshes[n].groups) >= 2
        /\ \E k \in 1..Len(result.meshes[n].groups) : result.meshes[n].groups[k].count > 6

------------------------------------------------------------------------
\* C3: build_chunk_greedy on a chunk of exactly one voxel of a solid type returns
\* one mesh, of category "solid", with 24 vertices and 36 indices: 6 quads, one
\* per face direction, each covering the voxel's face in that direction.

OneSolidVoxel ==
    /\ call.op = "build_chunk_greedy"
    /\ block_count(call.blocks) = 1
    /\ HasSolidEntry(palette, BlockType(call.blocks, 0))

------------------------------------------------------------------------
\* C4: for two solid voxels adjacent along X whose entries both have
\* occlusionFlags = 63, the greedy output covers neither face at the shared
\* boundary and covers each of the other 10 unit faces.

FullyOccludingSolid(pal, t) ==
    HasSolidEntry(pal, t) /\ PaletteGet(pal, t)[1].occlusion_flags = 63

\* the call meshed exactly two voxels, block lo at x and block hi at x + 1
AdjacentPairX(lo, hi) ==
    /\ call.op = "build_chunk_greedy"
    /\ block_count(call.blocks) = 2
    /\ {lo, hi} = {0, 1}
    /\ BlockX(call.blocks, hi) = BlockX(call.blocks, lo) + 1
    /\ BlockY(call.blocks, hi) = BlockY(call.blocks, lo)
    /\ BlockZ(call.blocks, hi) = BlockZ(call.blocks, lo)
    /\ FullyOccludingSolid(palette, BlockType(call.blocks, lo))
    /\ FullyOccludingSolid(palette, BlockType(call.blocks, hi))

CellOf(blocks, i) == <<BlockX(blocks, i), BlockY(blocks, i), BlockZ(blocks, i)>>

------------------------------------------------------------------------
\* C6: a build called with fewer than 4 integers returns meshes = [] and origin
\* (0,0,0) whatever the requested origin and the catalog, and builds no grid.

C6_EmptyListEmptyResult ==
    (IsBuild /\ Len(call.blocks) < 4) =>
        /\ result = [kind |-> "ok", meshes |-> <<>>, origin |-> <<0, 0, 0>>]
        /\ voxel_map = <<>>

C6_Witness ==
    /\ IsBuild
    /\ Len(call.blocks) \in 1..3
    /\ call.origin /= <<0, 0, 0>>
    /\ palette /= <<>>
    /\ result.meshes = <<>>

------------------------------------------------------------------------
\* C8: a voxel whose type index has no catalog entry (negative, unused, or past
\* the end) does not abort the build and contributes nothing: the build returns,
\* and its meshes are those of the same call without the entry-less voxels
\* (compared when no such voxel shares its cell with a voxel that has an entry).

UnknownBlocks(pal, blocks) ==
    {i \in 0..(block_count(blocks) - 1) : PaletteGet(pal, BlockType(blocks, i)) = None}

\* the block list without its entry-less voxels
WithoutUnknown(pal, blocks) ==
    Flatten([n \in 1..block_count(blocks) |->
        IF (n - 1) \in UnknownBlocks(pal, blocks) THEN <<>>
        ELSE <<BlockX(blocks, n - 1), BlockY(blocks, n - 1),
               BlockZ(blocks, n - 1), BlockType(blocks, n - 1)>>])

UnknownApart(pal, blocks) ==
    \A i \in UnknownBlocks(pal, blocks) :
        \A j \in 0..(block_count(blocks) - 1) :
            CellOf(blocks, j) = CellOf(blocks, i) => j \in UnknownBlocks(pal, blocks)

MeshesOf(op, pal, blocks, origin, h) ==
    IF op = "build_chunk" THEN BuildChunkResult(pal, blocks, origin, h, FALSE).meshes
    ELSE BuildChunkGreedyResult(pal, blocks, origin, h, FALSE).meshes

C8_UnknownVoxelIgnored ==
    (IsBuild /\ UnknownBlocks(palette, call.blocks) /= {}) =>
        /\ result.kind = "ok"
        /\ UnknownApart(palette, call.blocks) =>
             \E h \in 0..(HashOrders - 1) :
                 result.meshes = MeshesOf(call.op, palette,
                                          WithoutUnknown(palette, call.blocks),
                                          call.origin, h)

------------------------------------------------------------------------
\* Spec: any sequence of the builder's operations over small arguments

NoInput == [previous |-> <<>>, palette_data |-> <<>>, blocks |-> <<>>,
            origin |-> <<0, 0, 0>>]

LifecycleBlocks == {<<>>, <<0, 0, 0, 0>>, <<2, 0, 0, 1>>}

Init == new /\ input = NoInput

Next ==
    \/ start_batch
    \/ finish_batch
    \/ clear_batch
    \/ \E c \in {CatalogA, CatalogB} : update_palette(c)
    \/ \E b \in LifecycleBlocks : build_chunk(b, <<1, -2, 3>>)
    \/ \E b \in LifecycleBlocks : build_chunk_greedy(b, <<1, -2, 3>>)

Spec == Init /\ [][Next]_vars

------------------------------------------------------------------------
\* C1: after start_batch, two build_chunk calls (chunk A, then chunk B) and
\* finish_batch, the meshes finish_batch returns hold, per category, the same
\* total vertex count and index count as one build_chunk call on A followed by B.

RECURSIVE CategoryTotals(_, _)
CategoryTotals(meshes, category) ==
    IF meshes = <<>> THEN <<0, 0>>
    ELSE LET rest == CategoryTotals(Tail(meshes), category)
         IN  IF Head(meshes).category = category
             THEN <<rest[1] + VertexCountOf(Head(meshes)),
                    rest[2] + Len(Head(meshes).indices)>>
             ELSE rest

CategoriesOf(pal) ==
    {pal[n][1].category : n \in {m \in 1..Len(pal) : pal[m] /= None}}

\* finish_batch has just closed a batch in which exactly two build_chunk calls
\* were made, and nothing else
TwoBuildBatch ==
    /\ call.op = "finish_batch"
    /\ Len(batchLog.builds) = 2
    /\ ~batchLog.other

C1_BatchEqualsSingleBuild ==
    TwoBuildBatch =>
        \A c \in CategoriesOf(palette) :
            CategoryTotals(result.meshes, c) =
                CategoryTotals(
                    BuildChunkResult(palette,
                                     batchLog.builds[1] \o batchLog.builds[2],
                                     <<0, 0, 0>>, 0, FALSE).meshes, c)

------------------------------------------------------------------------
\* C7: is_batch_mode is true exactly when the most recent batch operation was
\* start_batch; finish_batch and clear_batch leave the accumulators empty, so
\* does start_batch, and a finish_batch with no build since the latest
\* start_batch emits no mesh.

C7_BatchModeTracksLastOp ==
    /\ is_batch_mode = (lastBatchOp = "start_batch")
    /\ lastBatchOp \in {"finish_batch", "clear_batch"} => accumulators = EmptyMap
    /\ call.op = "start_batch" => accumulators = EmptyMap
    /\ (call.op = "finish_batch" /\ batchLog.builds = <<>> /\ ~batchLog.other)
          => result.meshes = <<>>

\* a batch in which chunks were built has been finished
C7_Witness ==
    /\ call.op = "finish_batch"
    /\ batchLog.builds /= <<>>
    /\ ~is_batch_mode
    /\ palette /= <<>>

------------------------------------------------------------------------
\* SpecPalette: update_palette over loosely typed items, after a first catalog

JsPool ==
    {JsObject(Some(0), Some(63), Some("solid"), <<QuadPosXGeom(Some(0))>>),
     JsObject(Some(2), None, None, <<HalfUpGeom(None)>>),
     JsObject(None, Some(5), Some("cutout"), <<>>),
     JsObject(Some(0), Some(0), Some("transparent"), <<DiagGeom(Some(2))>>),
     JsObject(Some(-1), None, Some("solid"), <<>>),
     JsNonObject}

RECURSIVE EntryLists(_)
EntryLists(n) ==
    IF n = 0 THEN {<<>>}
    ELSE LET P == EntryLists(n - 1)
         IN  P \cup {Append(l, e) : l \in {q \in P : Len(q) = n - 1}, e \in JsPool}

PaletteInputs ==
    [previous : {CatalogB}, palette_data : EntryLists(MaxEntries),
     blocks : {<<0, 0, 0, 0, 1, 0, 0, 2>>}, origin : {<<0, 0, 0>>}]

InitPalette == new /\ input \in PaletteInputs

SpecPalette == InitPalette /\ [][NextInput]_vars

------------------------------------------------------------------------
\* C9 as stated: after update_palette(entries) the entry at index i is present
\* exactly when some object of entries carries index i; it is then built from
\* the last such object, with occlusionFlags 0 and category "solid" where the
\* object lacks them; nothing of the previous catalog survives.

\* the positions (1-based) of the objects of entries that carry index i
Carrying(entries, i) ==
    {n \in 1..Len(entries) : entries[n].isObject /\ entries[n].index = Some(i)}

LastOf(S) == CHOOSE n \in S : \A m \in S : m <= n

\* the catalog entry the claim expects from a palette object
ExpectedEntry(obj) ==
    [occlusion_flags |-> IF obj.occlusionFlags = None THEN 0 ELSE obj.occlusionFlags[1],
     category |-> IF obj.category = None THEN "solid" ELSE obj.category[1],
     geometries |-> [j \in 1..Len(obj.geometries) |->
                        [positions |-> obj.geometries[j].positions,
                         normals |-> obj.geometries[j].normals,
                         uvs |-> obj.geometries[j].uvs,
                         indices |-> obj.geometries[j].indices,
                         material_index |->
                             IF obj.geometries[j].materialIndex = None THEN 0
                             ELSE obj.geometries[j].materialIndex[1]]]]

\* the indices the claim ranges over: every slot of the palette and every
\* index an object carries
IndicesOf(pal, entries) ==
    (0..Len(pal)) \cup {entries[n].index[1] : n \in {m \in 1..Len(entries) :
                                    entries[m].isObject /\ entries[m].index /= None}}

C9_CatalogReplacedByCarriedIndex ==
    call.op = "update_palette" =>
        \A i \in IndicesOf(palette, call.palette_data) :
            /\ (PaletteGet(palette, i) /= None) <=> (Carrying(call.palette_data, i) /= {})
            /\ Carrying(call.palette_data, i) /= {} =>
                 PaletteGet(palette, i) =
                     Some(ExpectedEntry(call.palette_data[LastOf(Carrying(call.palette_data, i))]))

\* C9 amended: the same, where an object whose index is missing or negative
\* counts as carrying index 0.

EffectiveIndex(obj) ==
    IF obj.index = None \/ obj.index[1] < 0 THEN 0 ELSE obj.index[1]

Landing(entries, i) ==
    {n \in 1..Len(entries) : entries[n].isObject /\ EffectiveIndex(entries[n]) = i}

C9_CatalogReplaced ==
    call.op = "update_palette" =>
        \A i \in IndicesOf(palette, call.palette_data) :
            /\ (PaletteGet(palette, i) /= None) <=> (Landing(call.palette_data, i) /= {})
            /\ Landing(call.palette_data, i) /= {} =>
                 PaletteGet(palette, i) =
                     Some(ExpectedEntry(call.palette_data[LastOf(Landing(call.palette_data, i))]))

\* an update that replaced a longer catalog, with an object lacking
\* occlusionFlags and category and an object lacking its index
C9_Witness ==
    /\ call.op = "update_palette"
    /\ Len(call.palette_data) = 2
    /\ call.palette_data[1].isObject /\ call.palette_data[1].index = None
    /\ call.palette_data[2].isObject /\ call.palette_data[2].category = None
    /\ Len(palette) = 3
    /\ palette[1] /= None /\ palette[2] = None /\ palette[3] /= None

------------------------------------------------------------------------
\* SpecSlab: greedy builds of flat slabs

\* the type of slab cell (i, j) under pattern pat
SlabType(pat, i, j) ==
    IF pat = "zeros" THEN 0 ELSE IF pat = "ones" THEN 1 ELSE (i + j) % 2

\* an L x W slab with corner c, listed row by row (or backwards when rev)
SlabBlocks(L, W, c, pat, rev) ==
    [k \in 1..(4 * L * W) |->
        LET n == (k - 1) \div 4
            m == IF rev THEN L * W - 1 - n ELSE n
            i == m % L
            j == m \div L
            f == (k - 1) % 4
        IN  IF f = 0 THEN c[1] + i
            ELSE IF f = 1 THEN c[2]
            ELSE IF f = 2 THEN c[3] + j
            ELSE SlabType(pat, i, j)]

Slabs ==
    {SlabBlocks(L, W, c, pat, rev) :
        L \in 1..MaxSlab, W \in 1..MaxSlab, c \in {<<0, 0, 0>>, <<-2, 5, 1>>},
        pat \in {"zeros", "ones", "mixed"}, rev \in BOOLEAN}

SlabInputs ==
    [previous : {<<>>}, palette_data : {CatalogA, CatalogC},
     blocks : Slabs, origin : Origins]

InitSlab == new /\ input \in SlabInputs

SpecSlab == InitSlab /\ [][NextInput]_vars

------------------------------------------------------------------------
\* C5: when build_chunk_greedy meshes a flat L x W slab (one layer in Y, every
\* cell of the rectangle filled) of solid voxels that all have the same
\* material index, the solid mesh has exactly one quad facing +Y, and that quad
\* spans the whole top of the slab: L along X and W along Z (UVs L and W).

SlabMaterial(pal, blocks, i) == FirstMaterial(PaletteGet(pal, BlockType(blocks, i))[1])

\* the call meshed a full one-layer rectangle of solid voxels of one material
SlabCall ==
    /\ call.op = "build_chunk_greedy"
    /\ block_count(call.blocks) > 0
    /\ LET n == block_count(call.blocks)
           b == calculate_bounds(call.blocks)
       IN  /\ b[2] = b[5]
           /\ {CellOf(call.blocks, i) : i \in 0..(n - 1)}
                = {<<x, b[2], z>> : x \in b[1]..b[4], z \in b[3]..b[6]}
           /\ \A i \in 0..(n - 1) : HasSolidEntry(palette, BlockType(call.blocks, i))
           /\ \A i \in 0..(n - 1) :
                SlabMaterial(palette, call.blocks, i) = SlabMaterial(palette, call.blocks, 0)

SlabL == calculate_bounds(call.blocks)[4] - calculate_bounds(call.blocks)[1] + 1
SlabW == calculate_bounds(call.blocks)[6] - calculate_bounds(call.blocks)[3] + 1

\* the quads of the mesh that face +Y
TopQuads(mesh) ==
    {k \in 1..QuadCount(mesh) : QuadNormal(mesh, k) = EncodedNormal(PosY)}

------------------------------------------------------------------------
\* SpecWidth: builds whose meshes have vertex counts around 65535

\* a geometry of n vertices (all at the block corner, no normals, no uvs) with
\* one triangle that references the last vertex
Zeros(n) == SubSeq([k \in 1..n |-> 0], 1, n)

BigGeom(n, mat) ==
    [positions |-> Zeros(3 * n), normals |-> <<>>, uvs |-> <<>>,
     indices |-> <<0, 1, n - 1>>, materialIndex |-> Some(mat)]

HalfLow == U16Max \div 2
HalfHigh == HalfLow + 1

\* type 0 is a solid cube face, types 1 and 2 carry the large geometries of
\* one category: together 65535 or 65536 vertices
CatalogWide(n1) ==
    <<JsObject(Some(0), Some(63), Some("solid"), <<QuadPosXGeom(Some(0))>>),
      JsObject(Some(1), Some(0), Some("cutout"), <<BigGeom(n1, 1)>>),
      JsObject(Some(2), Some(0), Some("cutout"), <<BigGeom(HalfHigh, 2)>>)>>

WideCatalogs == {CatalogWide(HalfLow), CatalogWide(HalfHigh)}

\* one chunk with both large geometries and a solid voxel
WideBuildInputs ==
    [previous : {<<>>}, palette_data : WideCatalogs,
     blocks : {<<0, 0, 0, 1, 1, 0, 0, 2, 0, 0, 1, 0>>},
     origin : {<<0, 0, 0>>},
     vertex_count : {3}, indices : {<<0, 1, 2>>}]

\* vertex counts on both sides of the 16-bit limit
VertexCounts == {3, U16Max - 1, U16Max, U16Max + 1, U16Max + 2, MaxVertexCount}

\* u32 index lists of a mesh of v vertices, and one that points past its vertices
IndexLists(v) ==
    {<<0, 1, 2>>, <<v - 3, v - 2, v - 1>>, <<v - 1, 0, v \div 2>>,
     <<0, 1, v + U16Max + 1>>}

IndexInputs ==
    {[previous |-> <<>>, palette_data |-> CatalogA, blocks |-> b,
      origin |-> <<0, 0, 0>>, vertex_count |-> v, indices |-> i] :
        b \in {<<0, 0, 0, 0>>, <<0, 0, 0, 0, 1, 0, 0, 3>>},
        v \in VertexCounts,
        i \in UNION {IndexLists(w) : w \in VertexCounts}}

NextWidth ==
    \/ NextInput
    \/ \E site \in Sites : index_array(site, input.vertex_count, input.indices)

InitWidth == new /\ input \in (WideBuildInputs \cup IndexInputs)

SpecWidth == InitWidth /\ [][NextWidth]_vars

------------------------------------------------------------------------
\* C10: every mesh returned by a build has 16-bit indices exactly when its own
\* vertex count is at most 65535 and 32-bit indices otherwise, whatever the
\* other meshes of the same result hold; its indices, before they are narrowed,
\* all lie below its vertex count; and when 16-bit indices are chosen the
\* stored indices are those values unchanged, all below 65536.  The same holds
\* of the index-array step at each of its three sites for every vertex count
\* and every index list that stays below the vertex count.

\* the indices of the instances from v_offset on, before they are narrowed:
\* each surviving local index plus the vertices emitted before its instance
\* (lines 693-696, 715)
RECURSIVE WideIndicesFrom(_, _, _, _, _)
WideIndicesFrom(pal, g, vmap, instances, v_offset) ==
    IF instances = <<>> THEN <<>>
    ELSE LET inst == Head(instances)
             valid == ValidIndicesFrom(pal, inst.geom, g, vmap, inst.x, inst.y, inst.z, 1)
         IN  IF valid = <<>>
             THEN WideIndicesFrom(pal, g, vmap, Tail(instances), v_offset)
             ELSE [k \in 1..Len(valid) |-> valid[k] + v_offset]
                  \o WideIndicesFrom(pal, g, vmap, Tail(instances),
                                     v_offset + (Len(inst.geom.positions) \div 3))

WideIndices(pal, blocks, category) ==
    LET g == GridShape(blocks)
        batches == CategoryBatches(pal, blocks, FALSE)
    IN  WideIndicesFrom(pal, g, BuildVoxelMap(blocks, g),
                        Instances(pal, batches[category], blocks), 0)

\* the indices of the greedy solid mesh before they are narrowed (lines 945-950)
WideQuadIndices(mesh) ==
    [k \in 1..(6 * QuadCount(mesh)) |->
        4 * ((k - 1) \div 6) + QuadIndices[((k - 1) % 6) + 1]]

WideIndicesOf(mesh) ==
    IF call.op = "build_chunk_greedy" /\ mesh.category = "solid"
    THEN WideQuadIndices(mesh)
    ELSE WideIndices(palette, call.blocks, mesh.category)

WidthMatchesVertexCount(bits, vertex_count) ==
    /\ bits = 16 <=> vertex_count <= 65535
    /\ bits = 32 <=> vertex_count > 65535

LosslessWhenNarrow(bits, stored, wide) ==
    bits = 16 =>
        /\ \A k \in 1..Len(wide) : wide[k] < 65536
        /\ stored = wide

C10_IndexWidthByVertexCount ==
    /\ Returned =>
        \A n \in 1..Len(result.meshes) :
            LET mesh == result.meshes[n]
                wide == WideIndicesOf(mesh)
            IN  /\ WidthMatchesVertexCount(mesh.indexBits, VertexCountOf(mesh))
                /\ \A k \in 1..Len(wide) : wide[k] < VertexCountOf(mesh)
                /\ LosslessWhenNarrow(mesh.indexBits, mesh.indices, wide)
    /\ (/\ call.op = "index_array"
        /\ \A k \in 1..Len(call.indices) : call.indices[k] < call.vertex_count) =>
        /\ WidthMatchesVertexCount(result.indexBits, call.vertex_count)
        /\ LosslessWhenNarrow(result.indexBits, result.indices, call.indices)

\* the merge's index-array step at exactly 65535 vertices: 16-bit, and the
\* index of the last vertex, 65534, is stored unchanged
C10_Witness ==
    /\ call.op = "index_array"
    /\ call.site = "merge_category_geometries"
    /\ call.vertex_count = 65535
    /\ result.indexBits = 16
    /\ \E k \in 1..Len(result.indices) :
        result.indices[k] = 65534 /\ call.indices[k] = 65534

------------------------------------------------------------------------
\* SpecQuant: the two quantizations applied to single components

\* whole parts of the components: inside the 16-bit range (|p| < 32), on its
\* edge and beyond it
Wholes == {-40, -33, -32, -1, 0, 1, 31, 32, 40}

\* every representable fraction on top of each whole part
Components == {w * FUnit + f : w \in Wholes, f \in 0..(FUnit - 1)}

NextQuant ==
    \/ quantize_position(input.component)
    \/ quantize_normal(input.component)

InitQuant == new /\ input \in [component : Components]

SpecQuant == InitQuant /\ [][NextQuant]_vars

------------------------------------------------------------------------
\* C11: for every local position component p with |p| < 32, the 16-bit value e
\* written for it satisfies |e/1024 - p| <= 1/1024.  In units of
\* 1/(1024 * FUnit): |e * FUnit - p * 1024| <= FUnit.

InRange32(component) == Abs(component) < 32 * FUnit

C11_PositionRoundTrip ==
    (call.op = "quantize_position" /\ InRange32(call.component)) =>
        Abs(result.value * FUnit - call.component * POSITION_SCALE) <= FUnit

\* a component strictly between two 16-bit steps, close to the upper one, has
\* been quantized and decodes to a different value
C11_Witness ==
    /\ call.op = "quantize_position"
    /\ InRange32(call.component)
    /\ call.component = -(32 * FUnit) + 3
    /\ result.value * FUnit # call.component * POSITION_SCALE

------------------------------------------------------------------------
\* C12: the encoded position component is round(local_position * 1024), the
\* integer nearest to the scaled value, clamped into [-32768, 32767]; the
\* encoded normal component is round(component * 127) in signed 8 bits.

\* the integer nearest to (r / FUnit) * scale, halves away from zero
RoundScaled(r, scale) ==
    IF r >= 0 THEN (2 * r * scale + FUnit) \div (2 * FUnit)
    ELSE -((2 * (-r) * scale + FUnit) \div (2 * FUnit))

Clamp(x, lo, hi) == IF x > hi THEN hi ELSE IF x < lo THEN lo ELSE x

C12_QuantizationRounds ==
    /\ call.op = "quantize_position" =>
        result.value = Clamp(RoundScaled(call.component, POSITION_SCALE), -32768, 32767)
    /\ call.op = "quantize_normal" =>
        result.value = Clamp(RoundScaled(call.component, NORMAL_SCALE), -128, 127)

------------------------------------------------------------------------
\* C13: for every face direction, the two triangles 0-1-2 and 0-2-3 of every
\* quad build_chunk_greedy emits are wound counter-clockwise seen from outside:
\* (v1 - v0) x (v2 - v0) and (v2 - v0) x (v3 - v0) point the way the quad's
\* outward normal points.

Cross(a, b) ==
    <<a[2] * b[3] - a[3] * b[2], a[3] * b[1] - a[1] * b[3], a[1] * b[2] - a[2] * b[1]>>

Sign(x) == IF x > 0 THEN 1 ELSE IF x < 0 THEN -1 ELSE 0

SameDirection(c, n) == \A a \in 1..3 : Sign(c[a]) = Sign(n[a])

\* corner j minus corner i of quad k
QuadEdge(mesh, k, i, j) ==
    [a \in 1..3 |-> QuadCorner(mesh, <<0, 0, 0>>, k, j)[a]
                    - QuadCorner(mesh, <<0, 0, 0>>, k, i)[a]]

GreedyReturned == call.op = "build_chunk_greedy" /\ result.kind = "ok"

C13_QuadsWoundOutward ==
    GreedyReturned =>
        \A n \in SolidMeshes(result.meshes) :
            \A k \in 1..QuadCount(result.meshes[n]) :
                LET mesh == result.meshes[n]
                IN  /\ SameDirection(Cross(QuadEdge(mesh, k, 1, 2), QuadEdge(mesh, k, 1, 3)),
                                     QuadNormal(mesh, k))
                    /\ SameDirection(Cross(QuadEdge(mesh, k, 1, 3), QuadEdge(mesh, k, 1, 4)),
                                     QuadNormal(mesh, k))

------------------------------------------------------------------------
\* C14: every quad build_chunk_greedy emits carries the UVs (0,0), (width,0),
\* (width,height), (0,height) at its corners 0..3, width and height being the
\* extents of the merged rectangle, and between consecutive corners the UV
\* changes by as much as the position does: the edge 0-1, along which u runs
\* from 0 to width, is width voxels long, and the edge 1-2, along which v runs
\* from 0 to height, is height voxels long.

\* the uv pair of corner j (1..4) of quad k, in units of 1/FUnit
QuadUV(mesh, k, j) ==
    <<mesh.uvs[8 * (k - 1) + 2 * (j - 1) + 1], mesh.uvs[8 * (k - 1) + 2 * (j - 1) + 2]>>

\* the length of an axis-parallel edge
EdgeLength(e) == Abs(e[1]) + Abs(e[2]) + Abs(e[3])

UVsTileQuad(mesh, k) ==
    \E width, height \in 1..(2 * MaxSlab) :
        /\ QuadUV(mesh, k, 1) = <<0, 0>>
        /\ QuadUV(mesh, k, 2) = <<width * FUnit, 0>>
        /\ QuadUV(mesh, k, 3) = <<width * FUnit, height * FUnit>>
        /\ QuadUV(mesh, k, 4) = <<0, height * FUnit>>
        /\ EdgeLength(QuadEdge(mesh, k, 1, 2)) = width
        /\ EdgeLength(QuadEdge(mesh, k, 2, 3)) = height
        /\ EdgeLength(QuadEdge(mesh, k, 3, 4)) = width
        /\ EdgeLength(QuadEdge(mesh, k, 4, 1)) = height

C14_UVsTilePerVoxel ==
    GreedyReturned =>
        \A n \in SolidMeshes(result.meshes) :
            \A k \in 1..QuadCount(result.meshes[n]) : UVsTileQuad(result.meshes[n], k)

------------------------------------------------------------------------
\* C15: every mesh object returned by build_chunk, build_chunk_greedy and
\* finish_batch has the keys category, positions, normals, uvs, indices, groups
\* and vertexCount, and its vertexCount is the number of vertices of its
\* position buffer.

MergedMeshKeys ==
    {"category", "positions", "normals", "uvs", "indices", "groups", "vertexCount"}

ReturnsMeshes ==
    call.op \in {"build_chunk", "build_chunk_greedy", "finish_batch"} /\ result.kind = "ok"

C15_MeshesCarryVertexCount ==
    ReturnsMeshes =>
        \A n \in 1..Len(result.meshes) :
            /\ MergedMeshKeys \subseteq DOMAIN result.meshes[n]
            /\ result.meshes[n].vertexCount = Len(result.meshes[n].positions) \div 3

------------------------------------------------------------------------
\* C16: a build_chunk call (or a build_chunk_greedy call) that follows a call
\* of the same builder with the same catalog, voxel list and origin returns
\* what that call returned: the same meshes in the same order, each with the
\* same vertex, index and group sequences.

\* the overflow of C8 is left out: whether it panics is fixed by the build
\* profile, which two calls of one builder share
SameBuildAgain ==
    /\ IsBuild
    /\ ~PopulateOverflows(call.blocks)
    /\ call' = call
    /\ palette' = palette

C16_BuildsDeterministic == [][SameBuildAgain => result' = result]_vars

------------------------------------------------------------------------
\* SpecGreedy: greedy_merge_faces applied to every pattern of faces on a plane
\* of MaxPlane x MaxPlane cells, for every direction

\* the block position whose face lies in the given layer at cell (u, v)
\* (the inverse of LayerUV)
FaceAt(dir, layer, u, v) ==
    IF dir \in {PosY, NegY} THEN <<u, layer, v>>
    ELSE IF dir \in {PosX, NegX} THEN <<layer, u, v>>
    ELSE <<u, v, layer>>

\* the first layer, and the (u, v) of its lowest cell
Low == <<5, -2, 1>>
LowLayer == Low[1]
LowU == Low[2]
LowV == Low[3]

PlaneCells == (0..(MaxPlane - 1)) \X (0..(MaxPlane - 1))

\* chunk bounds spanning the plane and two layers
PlaneBoundsOf(dir) ==
    LET lo == FaceAt(dir, LowLayer, LowU, LowV)
        hi == FaceAt(dir, LowLayer + 1, LowU + MaxPlane - 1, LowV + MaxPlane - 1)
    IN  [min_x |-> lo[1], min_y |-> lo[2], min_z |-> lo[3],
         max_x |-> hi[1], max_y |-> hi[2], max_z |-> hi[3]]

\* the faces of a pattern in layer LowLayer, in ascending or descending push
\* order; extra adds a face in the next layer or repeats the first face
PatternFaces(dir, cells, extra, rev) ==
    LET base == SetToSeq(cells)
        ordered == IF rev THEN Reverse(base) ELSE base
        inLayer == [n \in 1..Len(ordered) |->
                       FaceAt(dir, LowLayer, LowU + ordered[n][1], LowV + ordered[n][2])]
    IN  IF extra = "layer"
        THEN <<FaceAt(dir, LowLayer + 1, LowU + 1, LowV)>> \o inLayer
        ELSE IF extra = "repeat" THEN inLayer \o <<inLayer[1]>>
        ELSE inLayer

GreedyInputs ==
    {[dir |-> directions[d], faces |-> PatternFaces(directions[d], cells, extra, rev),
      bounds |-> PlaneBoundsOf(directions[d])] :
        d \in 1..6, cells \in (SUBSET PlaneCells) \ {{}},
        extra \in {"none", "layer", "repeat"}, rev \in BOOLEAN}

NextGreedy == merge_faces(input.dir, input.faces, input.bounds)

InitGreedy == new /\ input \in GreedyInputs

SpecGreedy == InitGreedy /\ [][NextGreedy]_vars

------------------------------------------------------------------------
\* C17: within each layer of a (direction, material) group the quads of
\* greedy_merge_faces are rectangles of width >= 1 and height >= 1 inside the
\* plane's bounding rectangle, pairwise disjoint, and their union is exactly the
\* set of cells that hold a face: every face is covered by exactly one quad and
\* no quad covers a cell without a face.

Merged == call.op = "greedy_merge_faces"

\* the (layer, u, v) cells that hold a face
FaceCells == {LayerUV(call.dir, call.faces[n]) : n \in 1..Len(call.faces)}

\* the (layer, u, v) cells a quad covers
QuadCells(dir, quad) ==
    LET a == LayerUV(dir, <<quad.x, quad.y, quad.z>>)
    IN  {<<a[1], a[2] + i, a[3] + j>> : i \in 0..(quad.width - 1), j \in 0..(quad.height - 1)}

InPlane(dir, bounds, c) ==
    LET pb == PlaneBounds(dir, bounds)
    IN  pb[1] <= c[2] /\ c[2] <= pb[2] /\ pb[3] <= c[3] /\ c[3] <= pb[4]

C17_GreedyExactCover ==
    Merged =>
        LET quads == result.quads
        IN  /\ \A k \in 1..Len(quads) :
                /\ quads[k].width >= 1 /\ quads[k].height >= 1
                /\ \A c \in QuadCells(call.dir, quads[k]) : InPlane(call.dir, call.bounds, c)
                /\ QuadCells(call.dir, quads[k]) \subseteq FaceCells
            /\ \A k, m \in 1..Len(quads) :
                k /= m => QuadCells(call.dir, quads[k]) \cap QuadCells(call.dir, quads[m]) = {}
            /\ \A c \in FaceCells :
                \E k \in 1..Len(quads) : c \in QuadCells(call.dir, quads[k])

\* an L-shaped pattern next to a second layer was merged into several quads,
\* one of them covering more than one cell
C17_Witness ==
    /\ Merged
    /\ Cardinality(FaceCells) >= 5
    /\ Cardinality({c[1] : c \in FaceCells}) = 2
    /\ Len(result.quads) >= 3
    /\ \E k \in 1..Len(result.quads) : result.quads[k].width >= 2 /\ result.quads[k].height >= 2

------------------------------------------------------------------------
\* C18: greedy_merge_faces scans each layer row by row (v) and, within a row,
\* from low u to high u.  Each quad is anchored at the first cell in that order
\* that holds a face no earlier quad has taken; its width is the length of the
\* maximal run of such cells from the anchor along u in the anchor's row; its
\* height is the maximal number of consecutive rows, from the anchor's row on,
\* that hold such cells at all of the width positions.

\* the quads of one layer, in the order they were emitted
LayerQuads(layer) ==
    SelectSeq(result.quads,
              LAMBDA q : LayerUV(call.dir, <<q.x, q.y, q.z>>)[1] = layer)

\* the faces of the layer that the quads before the i-th have not taken
Remaining(layer, i) ==
    {c \in FaceCells : c[1] = layer} \
        UNION {QuadCells(call.dir, LayerQuads(layer)[j]) : j \in 1..(i - 1)}

\* row-major order: by v, then by u
ScansBefore(c, d) == c[3] < d[3] \/ (c[3] = d[3] /\ c[2] < d[2])

FollowsScan(layer, i) ==
    LET quad == LayerQuads(layer)[i]
        a == LayerUV(call.dir, <<quad.x, quad.y, quad.z>>)
        left == Remaining(layer, i)
        rowFull(r) == \A t \in 0..(quad.width - 1) : <<layer, a[2] + t, a[3] + r>> \in left
    IN  /\ a \in left
        /\ \A c \in left : c = a \/ ScansBefore(a, c)
        /\ rowFull(0)
        /\ <<layer, a[2] + quad.width, a[3]>> \notin left
        /\ \A r \in 0..(quad.height - 1) : rowFull(r)
        /\ ~rowFull(quad.height)

C18_GreedyScanOrder ==
    Merged =>
        \A layer \in {c[1] : c \in FaceCells} :
            /\ \A i \in 1..Len(LayerQuads(layer)) : FollowsScan(layer, i)
            /\ Remaining(layer, Len(LayerQuads(layer)) + 1) = {}

\* a single face above a longer row: the first quad keeps the width 1 found in
\* its own row and grows down, the rest of the lower row becomes a second quad
C18_Witness ==
    /\ Merged
    /\ Len(result.quads) = 2
    /\ result.quads[1].width = 1 /\ result.quads[1].height = 2
    /\ result.quads[2].width = 2 /\ result.quads[2].height = 1
    /\ LayerUV(call.dir, <<result.quads[2].x, result.quads[2].y, result.quads[2].z>>)[3]
         = LayerUV(call.dir, <<result.quads[1].x, result.quads[1].y, result.quads[1].z>>)[3] + 1

------------------------------------------------------------------------
\* SpecCull: the two builders over a voxel at the origin cell and at most one
\* neighbour, next to it in any of the six directions.  Type 0 is the
\* neighbour, with every single occlusion bit in turn and no geometry; type 1
\* is a full solid cube type; type 2 carries one geometry whose triangles
\* face every direction at boundary, half-block and in-between offsets;
\* type 3 is a cutout type with a half-block triangle.

Eps == FUnit \div 100

Quarter == FUnit \div 4

\* offsets along the axis of a positive and of a negative direction
LevelsPos == <<F(1), F(1) - Eps, F(1) - (Eps + 1), Half, Half + Eps + 1, 0, -Half>>

LevelsNeg == <<0, Eps, Eps + 1, -Half, -(Half + Eps + 1), F(1), Half>>

IsPositive(dir) == dir \in {PosX, PosY, PosZ}

\* a point at the given offset along the axis of dir, a quarter in on the others
PointAt(dir, level) ==
    [a \in 1..3 |-> IF delta(dir)[a] /= 0 THEN level ELSE Quarter]

\* first-vertex position and normal of the triangles of the probe geometry
AxisTriangles ==
    [k \in 1..42 |->
        LET dir == directions[((k - 1) \div 7) + 1]
            l == ((k - 1) % 7) + 1
        IN  [p |-> PointAt(dir, IF IsPositive(dir) THEN LevelsPos[l] ELSE LevelsNeg[l]),
             n |-> normal(dir)]]

SlantedTriangles ==
    <<[p |-> PointAt(PosY, F(1)), n |-> <<0, (3 * FUnit) \div 5, 0>>],
      [p |-> PointAt(PosY, F(1)), n |-> <<0, (2 * FUnit) \div 5, 0>>],
      [p |-> <<F(1), F(1), Quarter>>, n |-> <<(7 * FUnit) \div 10, (7 * FUnit) \div 10, 0>>],
      [p |-> PointAt(PosX, F(1)), n |-> <<F(1), (2 * FUnit) \div 5, 0>>],
      [p |-> PointAt(NegY, 0), n |-> <<0, -Half, 0>>],
      [p |-> PointAt(PosZ, F(1)), n |-> <<0, 0, F(2)>>],
      [p |-> PointAt(PosY, F(1)), n |-> <<0, F(1), 0>>]>>

ProbeTriangles == AxisTriangles \o SlantedTriangles

\* triangle k owns vertices 3(k-1) .. 3(k-1)+2 and lists the middle one first;
\* its other two vertices lie flush on the top boundary with normal +Y; the
\* normals stop before the first vertex of the last triangle
ProbeGeom(mat) ==
    LET K == Len(ProbeTriangles)
        decoy == PointAt(PosY, F(1))
        vertex(k) == ProbeTriangles[k].p
        pos(k) == decoy \o vertex(k) \o decoy
        nrm(k) == normal(PosY) \o ProbeTriangles[k].n \o normal(PosY)
        idx(k) == <<3 * (k - 1) + 1, 3 * (k - 1), 3 * (k - 1) + 2>>
    IN  [positions |-> Flatten([k \in 1..K |-> pos(k)]),
         normals |-> SubSeq(Flatten([k \in 1..K |-> nrm(k)]), 1, 9 * (K - 1) + 3),
         uvs |-> <<>>,
         indices |-> Flatten([k \in 1..K |-> idx(k)]),
         materialIndex |-> mat]

NeighbourFlags == {0, 1, 2, 4, 8, 16, 32, 63}

CullCatalog(flags, category) ==
    <<JsObject(Some(0), Some(flags), Some(category), <<>>),
      JsObject(Some(1), Some(63), Some("solid"), <<QuadPosXGeom(Some(0))>>),
      JsObject(Some(2), Some(0), Some("transparent"), <<ProbeGeom(Some(0))>>),
      JsObject(Some(3), Some(0), Some("cutout"), <<HalfUpGeom(Some(1))>>)>>

CullCatalogs ==
    {CullCatalog(flags, category) : flags \in NeighbourFlags,
                                    category \in {"solid", "cutout"}}

\* the neighbour's type: stored as empty, known, known and solid, known with
\* a half-block geometry, unknown
NeighbourTypes == {-1, 0, 1, 3, 5}

CullBlocks ==
    {<<0, 0, 0, t>> : t \in {1, 2}}
    \cup {<<0, 0, 0, t>> \o delta(directions[n]) \o <<u>> :
            t \in {1, 2}, n \in 1..6, u \in NeighbourTypes}
    \cup {delta(directions[n]) \o <<u>> \o <<0, 0, 0, t>> :
            t \in {1, 2}, n \in 1..6, u \in NeighbourTypes}

CullInputs ==
    [previous : {<<>>}, palette_data : CullCatalogs, blocks : CullBlocks,
     origin : {<<1, -2, 3>>}]

InitCull == new /\ input \in CullInputs

SpecCull == InitCull /\ [][NextInput]_vars

------------------------------------------------------------------------
\* C19: in a greedy build, the face of a solid voxel towards d is covered by a
\* quad exactly when the cell at position + d is empty, or holds a type
\* without catalog entry, or holds a type whose occlusionFlags lack the bit of
\* its face pointing back; the index of that bit is 0,1,2,3,4,5 for
\* d = +X,-X,+Y,-Y,+Z,-Z, which is the face index of the opposite direction
\* and the index the naive path tests.

Opposite(dir) ==
    CASE dir = PosX -> NegX
      [] dir = NegX -> PosX
      [] dir = PosY -> NegY
      [] dir = NegY -> PosY
      [] dir = PosZ -> NegZ
      [] dir = NegZ -> PosZ

\* the type listed last at cell c, if any
TypeAt(blocks, c) ==
    LET S == {i \in 0..(block_count(blocks) - 1) : CellOf(blocks, i) = c}
    IN  IF S = {} THEN None
        ELSE Some(BlockType(blocks, CHOOSE i \in S : \A j \in S : j <= i))

NeighbourCell(c, dir) == [a \in 1..3 |-> c[a] + delta(dir)[a]]

\* the neighbour towards dir has an entry whose back-pointing bit is set
NeighbourOccludes(pal, blocks, c, dir) ==
    LET t == TypeAt(blocks, NeighbourCell(c, dir))
    IN  /\ t /= None
        /\ PaletteGet(pal, t[1]) /= None
        /\ BitSet(PaletteGet(pal, t[1])[1].occlusion_flags,
                  occlusion_face_index(Opposite(dir)))

BackFacingBitTable ==
    \A n \in 1..6 :
        LET d == directions[n]
        IN  /\ opposite_occlusion_index(d) = n - 1
            /\ opposite_occlusion_index(d) = occlusion_face_index(Opposite(d))
            /\ opposite_occlusion_index(d) =
                 neighbor_face_index(delta(d)[1], delta(d)[2], delta(d)[3])

C19_GridDrivenVisibility ==
    /\ BackFacingBitTable
    /\ GreedyReturned =>
         \A i \in 0..(block_count(call.blocks) - 1), n \in 1..6 :
             HasSolidEntry(palette, BlockType(call.blocks, i)) =>
                 FaceCover(result.meshes, call.origin, CellOf(call.blocks, i),
                           directions[n])
                   = IF NeighbourOccludes(palette, call.blocks,
                                          CellOf(call.blocks, i), directions[n])
                     THEN 0 ELSE 1

\* a cube under a neighbour that occludes through its bottom face only
C19_Witness ==
    /\ GreedyReturned
    /\ call.blocks = <<0, 1, 0, 0,  0, 0, 0, 1>>
    /\ PaletteGet(palette, 0) /= None
    /\ PaletteGet(palette, 0)[1].occlusion_flags = 4
    /\ FaceCover(result.meshes, call.origin, <<0, 0, 0>>, PosY) = 0
    /\ FaceCover(result.meshes, call.origin, <<0, 0, 0>>, NegY) = 1

------------------------------------------------------------------------
\* C20: in a naive build, a triangle of a voxel's geometry is dropped exactly
\* when the normal of its first vertex rounds to a single-axis unit vector,
\* that vertex is flush with the block boundary on that side, the cell at
\* position + direction is occupied and the neighbour's entry has the
\* occlusion bit of its face touching the voxel set; every other triangle is
\* kept with its three indices in their original order.

\* the call meshed one voxel of the probe type, block i, maybe with a neighbour
ProbeBuilt(i) ==
    /\ call.op = "build_chunk"
    /\ result.kind = "ok"
    /\ PaletteGet(palette, 2) /= None
    /\ i \in 0..(block_count(call.blocks) - 1)
    /\ BlockType(call.blocks, i) = 2

ProbeEntryGeom == PaletteGet(palette, 2)[1].geometries[1]

TriangleCount(geom) == Len(geom.indices) \div 3

\* the first listed vertex of triangle k (1-based)
FirstVertex(geom, k) == geom.indices[3 * (k - 1) + 1]

VertexPosition(geom, v) == SubSeq(geom.positions, 3 * v + 1, 3 * v + 3)

HasNormal(geom, v) == Len(geom.normals) >= 3 * v + 3

RoundedNormal(geom, v) == [a \in 1..3 |-> RoundF(geom.normals[3 * v + a])]

\* the vertex lies within 0.01 of the boundary plane of the block towards dir
OnBoundary(dir, p) ==
    \A a \in 1..3 :
        /\ delta(dir)[a] = 1 => Near(p[a], F(1))
        /\ delta(dir)[a] = -1 => Near(p[a], 0)

\* the vertex lies within 0.01 of the half-block plane 0.5 along the axis of dir
OnHalfPlane(dir, p) ==
    \A a \in 1..3 : delta(dir)[a] /= 0 => Near(p[a], Half)

\* triangle k faces dir along an axis and its neighbour there occludes
AxisOccluded(geom, k, c, dir) ==
    LET v == FirstVertex(geom, k)
    IN  /\ HasNormal(geom, v)
        /\ RoundedNormal(geom, v) = delta(dir)
        /\ NeighbourOccludes(palette, call.blocks, c, dir)

\* flush as the flush test is specified: on the boundary plane of the block
\* towards dir, or on the half-block plane
DroppedWhenFlush(geom, k, c) ==
    \E n \in 1..6 :
        /\ AxisOccluded(geom, k, c, directions[n])
        /\ \/ OnBoundary(directions[n], VertexPosition(geom, FirstVertex(geom, k)))
           \/ OnHalfPlane(directions[n], VertexPosition(geom, FirstVertex(geom, k)))

TriangleIndices(geom, k) == SubSeq(geom.indices, 3 * (k - 1) + 1, 3 * k)

\* the index buffer of the mesh of the probe's category
ProbeIndices ==
    LET S == {n \in 1..Len(result.meshes) : result.meshes[n].category = "transparent"}
    IN  IF S = {} THEN <<>> ELSE result.meshes[CHOOSE n \in S : TRUE].indices

C20_NaiveCulling ==
    \A i \in {0, 1} :
        ProbeBuilt(i) =>
            ProbeIndices =
                Flatten([k \in 1..TriangleCount(ProbeEntryGeom) |->
                    IF DroppedWhenFlush(ProbeEntryGeom, k, CellOf(call.blocks, i))
                    THEN <<>> ELSE TriangleIndices(ProbeEntryGeom, k)])

------------------------------------------------------------------------
\* SpecFlush: the flush test over the six axis directions and every offset
\* between -1.0 and 2.0 along the axis, the other two coordinates a quarter
\* or a half

FlushOffsets == (-F(1))..F(2)

FlushInputs ==
    {[d |-> delta(directions[n]),
      v0 |-> [a \in 1..3 |-> IF delta(directions[n])[a] /= 0 THEN level ELSE other]] :
        n \in 1..6, level \in FlushOffsets, other \in {Quarter, Half}}

NextFlush ==
    flush_test(input.d[1], input.d[2], input.d[3], input.v0[1], input.v0[2], input.v0[3])

InitFlush == new /\ input \in FlushInputs

SpecFlush == InitFlush /\ [][NextFlush]_vars

------------------------------------------------------------------------
\* C21: for each of the six directions, the first vertex counts as flush
\* exactly when its coordinate along the axis is within 0.01 of the full
\* boundary for the sign (1.0 for a positive direction, 0.0 for a negative
\* one) or within 0.01 of 0.5.

WithinTolerance(v, target) == 100 * Abs(v - target) < FUnit

\* the coordinate of p along the axis of the unit vector d, and the sign of d
AxisCoordinate(d, p) == p[CHOOSE a \in 1..3 : d[a] /= 0]

AxisSign(d) == d[CHOOSE a \in 1..3 : d[a] /= 0]

FlushAsSpecified(d, p) ==
    \/ WithinTolerance(AxisCoordinate(d, p), IF AxisSign(d) = 1 THEN F(1) ELSE 0)
    \/ WithinTolerance(AxisCoordinate(d, p), Half)

C21_FlushTest ==
    call.op = "is_flush" => (result.value <=> FlushAsSpecified(call.d, call.v0))

------------------------------------------------------------------------
\* C22: for a non-empty voxel list the grid has (max - min + 1) + 2 cells per
\* axis; the cell index of every voxel and of each of its six neighbours lies
\* inside the grid; a cell holds 0 when no voxel is at its coordinate and
\* otherwise (type index + 1) of the voxel listed last at that coordinate.

Coordinates(blocks, a) == {CellOf(blocks, i)[a] : i \in 0..(block_count(blocks) - 1)}

\* max - min + 1 of the coordinates along axis a
Extent(blocks, a) ==
    LET S == Coordinates(blocks, a)
    IN  (CHOOSE hi \in S : \A x \in S : x <= hi)
        - (CHOOSE lo \in S : \A x \in S : lo <= x) + 1

PaddedCells(blocks) ==
    (Extent(blocks, 1) + 2) * (Extent(blocks, 2) + 2) * (Extent(blocks, 3) + 2)

CellIndex(blocks, c) == get_index(GridShape(blocks), c[1], c[2], c[3])

\* the voxel cells and their six neighbours
TouchedCells(blocks) ==
    {CellOf(blocks, i) : i \in 0..(block_count(blocks) - 1)}
    \cup {NeighbourCell(CellOf(blocks, i), directions[n]) :
            i \in 0..(block_count(blocks) - 1), n \in 1..6}

\* v = t + 1 over the integers (no i32 equals i32::MAX + 1)
IsTypePlusOne(v, t) == t < I32Max /\ v = t + 1

C22_GridBoundsSafety ==
    (IsBuild /\ block_count(call.blocks) > 0) =>
        /\ result.kind = "ok"
        /\ DOMAIN voxel_map = 0..(PaddedCells(call.blocks) - 1)
        /\ \A c \in TouchedCells(call.blocks) :
             /\ CellIndex(call.blocks, c) \in DOMAIN voxel_map
             /\ IF TypeAt(call.blocks, c) = None
                THEN voxel_map[CellIndex(call.blocks, c)] = 0
                ELSE IsTypePlusOne(voxel_map[CellIndex(call.blocks, c)],
                                   TypeAt(call.blocks, c)[1])
        /\ \A k \in DOMAIN voxel_map :
             (\A i \in 0..(block_count(call.blocks) - 1) :
                 CellIndex(call.blocks, CellOf(call.blocks, i)) /= k)
             => voxel_map[k] = 0

\* the same, for lists without the type index i32::MAX
C22_GridBoundsSafetyBelowMax ==
    (IsBuild /\ ~PopulateOverflows(call.blocks)) => C22_GridBoundsSafety

------------------------------------------------------------------------
\* C23: in a mesh of the naive path, an instance without surviving triangle
\* adds nothing; every other instance adds all its local vertices, translated
\* by voxel position - origin, and its surviving indices offset by the
\* vertices of the earlier surviving instances; every index is smaller than
\* the vertex count, and positions, normals and uvs hold 3, 3 and 2 values
\* per vertex.

NaiveReturned == call.op = "build_chunk" /\ result.kind = "ok"

\* the geometry instances of a category in visiting order
NaiveInstances(category) ==
    Instances(palette, CategoryBatches(palette, call.blocks, FALSE)[category],
              call.blocks)

Surviving(inst) ==
    ValidIndicesFrom(palette, inst.geom, GridShape(call.blocks), voxel_map,
                     inst.x, inst.y, inst.z, 1)

Survivors(category) ==
    SelectSeq(NaiveInstances(category), LAMBDA inst : Surviving(inst) /= <<>>)

LocalVerts(inst) == Len(inst.geom.positions) \div 3

RECURSIVE VertsBefore(_, _)
VertsBefore(S, k) ==
    IF k <= 1 THEN 0 ELSE VertsBefore(S, k - 1) + LocalVerts(S[k - 1])

TranslatedPositions(inst) ==
    LET at == <<inst.x, inst.y, inst.z>>
    IN  [j \in 1..(3 * LocalVerts(inst)) |->
            QuantizePosition((at[((j - 1) % 3) + 1] - call.origin[((j - 1) % 3) + 1])
                                * FUnit + inst.geom.positions[j])]

OffsetIndices(S, k) ==
    [j \in 1..Len(Surviving(S[k])) |-> Surviving(S[k])[j] + VertsBefore(S, k)]

LocalIndicesValid(inst) ==
    \A j \in 1..Len(inst.geom.indices) :
        inst.geom.indices[j] >= 0 /\ inst.geom.indices[j] < LocalVerts(inst)

BuffersOfSurvivors(mesh) ==
    LET S == Survivors(mesh.category)
        V == VertsBefore(S, Len(S) + 1)
    IN  /\ mesh.positions = Flatten([k \in 1..Len(S) |-> TranslatedPositions(S[k])])
        /\ mesh.indices = Flatten([k \in 1..Len(S) |-> OffsetIndices(S, k)])
        /\ Len(mesh.positions) = 3 * V
        /\ Len(mesh.normals) = 3 * V
        /\ Len(mesh.uvs) = 2 * V
        /\ Len(mesh.groups) <= Len(S)
        /\ \A n \in 1..Len(mesh.groups) : mesh.groups[n].count > 0
        /\ (\A k \in 1..Len(S) : LocalIndicesValid(S[k]))
             => \A j \in 1..Len(mesh.indices) :
                    mesh.indices[j] >= 0 /\ mesh.indices[j] < V

C23_NaiveMergeBuffers ==
    NaiveReturned =>
        \A n \in 1..Len(result.meshes) : BuffersOfSurvivors(result.meshes[n])

\* a mesh of several surviving instances, with a discarded instance between them
C23_Witness ==
    /\ NaiveReturned
    /\ \E n \in 1..Len(result.meshes) :
        LET I == NaiveInstances(result.meshes[n].category)
        IN  \E k \in 2..(Len(I) - 1) :
                /\ Surviving(I[k]) = <<>>
                /\ Surviving(I[k - 1]) /= <<>>
                /\ Surviving(I[k + 1]) /= <<>>

------------------------------------------------------------------------
\* C24: the naive path visits the instances of a category by type index
\* ascending, in input order within a type; the indices of each surviving
\* instance lie in a group of its material, and in every mesh of either path
\* no two adjacent groups have the same materialIndex (the same materialIndex
\* may return in a later, non-adjacent group).

\* the blocks of a category in visiting order: type ascending, then input order
VisitedBlocks(category) ==
    LET B == {i \in 0..(block_count(call.blocks) - 1) :
                /\ PaletteGet(palette, BlockType(call.blocks, i)) /= None
                /\ PaletteGet(palette, BlockType(call.blocks, i))[1].category = category}
        before(i, j) ==
            \/ BlockType(call.blocks, i) < BlockType(call.blocks, j)
            \/ BlockType(call.blocks, i) = BlockType(call.blocks, j) /\ i < j
        rank(i) == Cardinality({j \in B : before(j, i)}) + 1
    IN  [r \in 1..Cardinality(B) |-> CHOOSE i \in B : rank(i) = r]

VisitedInstances(category) ==
    LET V == VisitedBlocks(category)
        ofBlock(i) ==
            LET e == PaletteGet(palette, BlockType(call.blocks, i))[1]
            IN  [k \in 1..Len(e.geometries) |->
                    [x |-> BlockX(call.blocks, i), y |-> BlockY(call.blocks, i),
                     z |-> BlockZ(call.blocks, i), geom |-> e.geometries[k],
                     occlusion_flags |-> e.occlusion_flags]]
    IN  SelectSeq(Flatten([r \in 1..Len(V) |-> ofBlock(V[r])]),
                  LAMBDA inst : Surviving(inst) /= <<>>)

RECURSIVE IndicesBefore(_, _)
IndicesBefore(S, k) ==
    IF k <= 1 THEN 0 ELSE IndicesBefore(S, k - 1) + Len(Surviving(S[k - 1]))

\* the indices of surviving instance k lie in a group of its material
InGroupOfItsMaterial(mesh, S, k) ==
    \E n \in 1..Len(mesh.groups) :
        /\ mesh.groups[n].materialIndex = S[k].geom.material_index
        /\ mesh.groups[n].start <= IndicesBefore(S, k)
        /\ IndicesBefore(S, k) + Len(Surviving(S[k]))
             <= mesh.groups[n].start + mesh.groups[n].count

AdjacentGroupsDiffer(mesh) ==
    \A n \in 1..(Len(mesh.groups) - 1) :
        mesh.groups[n].materialIndex /= mesh.groups[n + 1].materialIndex

NaiveGroupsCoalesced(mesh) ==
    LET S == VisitedInstances(mesh.category)
    IN  /\ mesh.positions = Flatten([k \in 1..Len(S) |-> TranslatedPositions(S[k])])
        /\ \A k \in 1..Len(S) : InGroupOfItsMaterial(mesh, S, k)
        /\ IndicesBefore(S, Len(S) + 1) = Len(mesh.indices)

C24_GroupsCoalesced ==
    Returned =>
        \A n \in 1..Len(result.meshes) :
            /\ AdjacentGroupsDiffer(result.meshes[n])
            /\ call.op = "build_chunk" => NaiveGroupsCoalesced(result.meshes[n])

\* a naive mesh whose groups run material 1, 0, 1: instances merged into one
\* group, and a material returning in a non-adjacent group
C24_Witness ==
    /\ NaiveReturned
    /\ \E n \in 1..Len(result.meshes) :
        LET m == result.meshes[n]
        IN  /\ Len(m.groups) >= 3
            /\ m.groups[1].materialIndex = m.groups[3].materialIndex
            /\ Len(VisitedInstances(m.category)) > Len(m.groups)

------------------------------------------------------------------------
\* C25: build_chunk_greedy meshes every voxel with a catalog entry in exactly
\* one pass: solid voxels as quads of the one "solid" mesh, which comes first
\* and exists only when a solid face is visible; the voxels of each non-solid
\* category as the mesh merge_category_geometries produces for that category
\* over the same grid.

EntryCategory(i) == PaletteGet(palette, BlockType(call.blocks, i))[1].category

WithEntry == {i \in 0..(block_count(call.blocks) - 1) :
                PaletteGet(palette, BlockType(call.blocks, i)) /= None}

NonSolidCategories == {EntryCategory(i) : i \in WithEntry} \ {"solid"}

SolidBlocks == {i \in WithEntry : EntryCategory(i) = "solid"}

SolidFaceVisible ==
    \E i \in SolidBlocks, n \in 1..6 :
        ~NeighbourOccludes(palette, call.blocks, CellOf(call.blocks, i), directions[n])

\* Option<mesh>: what the naive merge gives for a category over the call's grid
NaiveMeshOf(category) ==
    merge_category_geometries(palette, category,
                              CategoryBatches(palette, call.blocks, FALSE)[category],
                              call.blocks, GridShape(call.blocks), voxel_map,
                              call.origin)

MeshesOfCategory(category) ==
    {n \in 1..Len(result.meshes) : result.meshes[n].category = category}

\* the solid mesh comes first, exists exactly when a solid face shows, and is
\* made of quads on the visible faces of solid voxels only
SolidMeshIsGreedy ==
    /\ MeshesOfCategory("solid") = IF SolidFaceVisible THEN {1} ELSE {}
    /\ \A n \in MeshesOfCategory("solid") :
        LET m == result.meshes[n]
        IN  /\ VertexCountOf(m) = 4 * QuadCount(m)
            /\ \A k \in 1..QuadCount(m) :
                 \E i \in SolidBlocks, d \in 1..6 :
                     QuadCoversFace(m, call.origin, k, CellOf(call.blocks, i),
                                    directions[d])
    /\ \A i \in SolidBlocks, d \in 1..6 :
        FaceCover(result.meshes, call.origin, CellOf(call.blocks, i), directions[d])
          = IF NeighbourOccludes(palette, call.blocks, CellOf(call.blocks, i),
                                 directions[d])
            THEN 0 ELSE 1

OnlyRoutedCategories ==
    \A n \in 1..Len(result.meshes) :
        result.meshes[n].category \in NonSolidCategories \cup {"solid"}

\* C25 as stated: one naive mesh for every non-solid category
C25_GreedyRoutingEveryCategory ==
    GreedyReturned =>
        /\ SolidMeshIsGreedy
        /\ OnlyRoutedCategories
        /\ \A c \in NonSolidCategories :
            /\ Cardinality(MeshesOfCategory(c)) = 1
            /\ NaiveMeshOf(c) /= None
            /\ \A n \in MeshesOfCategory(c) : result.meshes[n] = NaiveMeshOf(c)[1]

\* C25 amended: one naive mesh for every non-solid category that has a
\* vertex, none for a category whose voxels have no geometry at all
C25_GreedyRouting ==
    GreedyReturned =>
        /\ SolidMeshIsGreedy
        /\ OnlyRoutedCategories
        /\ \A c \in NonSolidCategories :
            IF NaiveMeshOf(c) = None THEN MeshesOfCategory(c) = {}
            ELSE /\ Cardinality(MeshesOfCategory(c)) = 1
                 /\ \A n \in MeshesOfCategory(c) : result.meshes[n] = NaiveMeshOf(c)[1]

\* a solid voxel next to a cutout voxel: a solid mesh first, then a naive one
C25_Witness ==
    /\ GreedyReturned
    /\ Len(result.meshes) = 2
    /\ result.meshes[1].category = "solid"
    /\ result.meshes[2].category = "cutout"
    /\ NaiveMeshOf("cutout") = Some(result.meshes[2])

====
